---- MODULE Spec2Model ----
(***************************************************************************)
(* SeetongDVR: the per-WebSocket stream session (stream_id based           *)
(* StreamSession), its reader loop and its streaming goroutines.           *)
(***************************************************************************)
EXTENDS Integers, Sequences, FiniteSets, TLC

(* ---------------- bounds of the model ---------------- *)
\* number of play/seek commands one connection handles
MaxRuns == 2
\* number of malformed JSON commands one connection handles
MaxBad == 1
\* largest number of NALs one ReadNextNals call hands out
MaxBatch == 2

(* ---------------- program constants ---------------- *)
NalTrailN == 0
NalTrailR == 1
NalIDRWRadl == 19
NalIDRNLP == 20
NalVPS == 32
NalSPS == 33
NalPPS == 34

(* ---------------- the mounted volume ---------------- *)
\* TPSStorage.cachedSegments: one cached segment, file 0, channel 2
CachedSegments ==
  { [FileIndex |-> 0, Channel |-> 2, StartTime |-> 10, EndTime |-> 20] }

\* TRec000000.tps as the NAL units ParseNalUnits finds in it, by file offset;
\* the NAL at offset 60 is of type 39, neither a frame nor a parameter set
Container ==
  << [Offset |-> 10, NalType |-> NalVPS],
     [Offset |-> 20, NalType |-> NalSPS],
     [Offset |-> 30, NalType |-> NalPPS],
     [Offset |-> 40, NalType |-> NalIDRWRadl],
     [Offset |-> 50, NalType |-> NalTrailR],
     [Offset |-> 60, NalType |-> 39],
     [Offset |-> 70, NalType |-> NalTrailR],
     [Offset |-> 80, NalType |-> NalTrailR] >>

\* end of the data of TRec000000.tps
ContainerEnd == 90

\* CachedSegmentInfo.AudioFrames of file 0, ascending by file offset
AudioFrames ==
  << [FileOffset |-> 5,  UnixTs |-> 12],
     [FileOffset |-> 45, UnixTs |-> 13],
     [FileOffset |-> 65, UnixTs |-> 14] >>

\* the values a client puts in a play/seek command
Channels == {2}
Timestamps == {5, 12, 14}
Speeds == {0, 2}

Runs == 1..MaxRuns
Free == 0
Reader == -1

VARIABLES
  loaded,        \* DVRServer.IsLoaded() and a storage is present
  rpc,           \* position of the reader loop of HandleWebSocket
  cmd,           \* the WSMessage being handled
  paused,        \* a pause was received and no play, seek or close since
  nbad,          \* malformed messages received so far
  nreply,        \* error replies the reader loop has written to the socket
  cancel,        \* StreamSession.cancel: the run it cancels, 0 when nil
  streamID,      \* StreamSession.streamID
  streamCounter, \* the global streamCounter
  wg,            \* StreamSession.wg counter
  mu,            \* StreamSession.mu: Free, Reader or the run holding it
  runs,          \* the streaming goroutines, by start order
  wire,          \* the messages the streaming goroutines have written to
                 \* the socket, in order, since
                 \* the session was last quiescent: a startStream that
                 \* finds no goroutine alive begins a new log, since no
                 \* message of a goroutine that has exited can follow
  rate,          \* the last speed command a streaming run was sent
  since,         \* video frames that run has written since, up to 2
  cachedSegments, \* TPSStorage.cachedSegments: file index -> info
  lookups,       \* the segment lookups made, with what they returned
  bc,            \* the BuildCacheWithWorkers call in progress
  workChan,      \* workChan: the work items not yet received
  resultChan,    \* resultChan: the results not yet collected
  pool,          \* the worker goroutines: waiting, building, exited
  progress,      \* the progressCallback invocations of the call
  builds,        \* buildSegmentCache invocations of the call, per file
  status,        \* the last CacheStatus handed out, with the point of the
                 \* build at which it was taken
  index,         \* the TIndex00.tps of the volume, as it is on the disk
  tps,           \* the DVRServer made for the volume and its TPSStorage
  answer,        \* the answer to the last play or seek on that server
  rec,           \* a container file TRec......tps as it is on the disk
  sidx,          \* the frame-index cache file at the container's cache path
  vpos,          \* the VPS cache file at the container's cache path
  handed,        \* the frame-index records last handed out, and how
  built,         \* what buildSegmentCache returned for the container
  trip,          \* a vector written to a cache file and what was read back
  dvr,           \* Handlers.dvr, the active DVRServer
  dvrCache,      \* Handlers.dvrCache, path -> DVRCache
  pathHistory,   \* Handlers.pathHistory
  volumes,       \* what is on the disk at each storage path
  config,        \* the answer to the last POST /api/v1/config, the path of
                 \* the last successful one and the server it replaced
  asked,         \* the paths requested so far and the changes of the disk
  caches,        \* GlobalMmapManager.caches, container path -> MmapCache
  mmaps,         \* the MmapCaches made so far, and whether still mapped
  getters,       \* the callers of GetOrLoad: where they are, what they got
  closes,        \* the calls of GlobalMmapManager.Close so far
  interp,        \* a list of I-frame positions, a target offset and the
                 \* time CalculatePreciseTimeFromIFrames returned for them
  scanned,       \* a container file and what ScanVPSPositions returned for it
  sought,        \* an audio record list, a time sought and the target offset found
  vsr,           \* a file, the VideoStreamReader on it and the NALs it has emitted
  ss,            \* the StreamSession with stopChan and running, its reader loop and goroutines
  listed         \* cached segments, a timezone and a channel filter, and the dates and recordings listed for them

\* the state of one WebSocket session
sessionVars == <<loaded, rpc, cmd, paused, nbad, nreply, cancel, streamID,
                 streamCounter, wg, mu, runs, wire>>

\* what an observer of the session remembers about speed commands
observerVars == <<rate, since>>

\* the state of the TPSStorage
storageVars == <<cachedSegments, lookups, bc, workChan, resultChan, pool,
                 progress, builds>>

\* the other parts of the process
statusVars == <<status>>

\* a volume, the server loaded from it and what a session on it is told
loadVars == <<index, tps, answer>>

\* a container, its two cache files and what was derived from them
frameVars == <<rec, sidx, vpos, handed, built, trip>>

\* the handlers of the configuration and the servers they keep
configVars == <<dvr, dvrCache, pathHistory, volumes, config, asked>>

\* the process-wide manager of the mapped frame-index caches
mmapVars == <<caches, mmaps, getters, closes>>

\* the interpolation between I-frame positions
interpVars == <<interp>>

serviceVars == <<configVars, mmapVars, interpVars>>

\* the later parts of the process, each in a variable of its own
extraVars == <<scanned, sought, vsr, ss, listed>>

besidesExtra == <<sessionVars, observerVars, storageVars, statusVars, loadVars,
                  frameVars, serviceVars>>
besidesScanned == <<besidesExtra, sought, vsr, ss, listed>>
besidesSought == <<besidesExtra, scanned, vsr, ss, listed>>
besidesVsr == <<besidesExtra, scanned, sought, ss, listed>>
besidesSs == <<besidesExtra, scanned, sought, vsr, listed>>
besidesListed == <<besidesExtra, scanned, sought, vsr, ss>>

processVars == <<statusVars, loadVars, frameVars, serviceVars, extraVars>>

\* what the requests for the status, the loads of a volume and the
\* operations on a container leave alone
besidesStatus == <<sessionVars, observerVars, storageVars, loadVars, frameVars,
                   serviceVars, extraVars>>
besidesLoad == <<sessionVars, observerVars, storageVars, statusVars, frameVars,
                 serviceVars, extraVars>>
besidesFrames == <<sessionVars, observerVars, storageVars, statusVars, loadVars,
                   serviceVars, extraVars>>
besidesService == <<sessionVars, observerVars, storageVars, statusVars, loadVars,
                    frameVars, extraVars>>

vars == <<sessionVars, observerVars, storageVars, processVars>>

(* ---------------- pure helpers ---------------- *)
\* IsVideoFrame
IsVideoFrame(nalType) ==
  nalType = NalTrailN \/ nalType = NalTrailR \/
  nalType = NalIDRWRadl \/ nalType = NalIDRNLP

\* the frame_type byte sendVideoFrameWithID puts in the header
FrameTypeOf(nalType) ==
  CASE nalType = NalVPS -> 2
    [] nalType = NalSPS -> 3
    [] nalType = NalPPS -> 4
    [] nalType = NalIDRWRadl \/ nalType = NalIDRNLP -> 1
    [] OTHER -> 0

\* FindSegmentByTime(ts, channel, true): the cached segments that match
\* (the code returns the first one its map iteration meets)
FindSegmentByTime(ts, channel) ==
  { seg \in CachedSegments :
      seg.Channel = channel /\ seg.StartTime <= ts /\ ts <= seg.EndTime }

\* lines 204-215: the offset the header search starts from
TargetOffset(audio, startTimestamp) ==
  LET hits == { i \in 1..Len(audio) : audio[i].UnixTs >= startTimestamp }
      first == IF hits = {} THEN 0
               ELSE audio[CHOOSE i \in hits : \A j \in hits : i <= j].FileOffset
  IN IF Len(audio) = 0 THEN 0
     ELSE IF first = 0 THEN audio[Len(audio)].FileOffset
     ELSE first

\* FindVPSSPSPPSIDR on the data read at iframeOffset: 0 when there is no
\* header, else the offset just past the first IDR that follows the first VPS
FindVPSSPSPPSIDR ==
  [iframeOffset \in 0..ContainerEnd |->
    LET idx   == { i \in 1..Len(Container) : Container[i].Offset >= iframeOffset }
        vpss  == { i \in idx : Container[i].NalType = NalVPS }
        vps   == CHOOSE i \in vpss : \A j \in vpss : i <= j
        idrs  == { i \in idx : i >= vps /\
                     Container[i].NalType \in {NalIDRWRadl, NalIDRNLP} }
        idr   == CHOOSE i \in idrs : \A j \in idrs : i <= j
        has(t) == \E i \in vps..idr : Container[i].NalType = t
    IN IF vpss = {} THEN 0
       ELSE IF idrs = {} THEN 0
       ELSE IF ~(has(NalSPS) /\ has(NalPPS)) THEN 0
       ELSE IF idr = Len(Container) THEN ContainerEnd
       ELSE Container[idr + 1].Offset]

\* ReadVideoHeader(fileIndex, iframeOffset).StreamStartPos, 0 for a nil header
ReadVideoHeader(iframeOffset) == FindVPSSPSPPSIDR[iframeOffset]

\* lines 229-241
ActualStartTime(audio, streamStartPos, startTimestamp) ==
  LET le == { i \in 1..Len(audio) :
                \A j \in 1..i : audio[j].FileOffset <= streamStartPos }
      t  == IF le = {} THEN 0
            ELSE audio[CHOOSE i \in le : \A j \in le : i >= j].UnixTs
  IN IF t = 0 THEN startTimestamp ELSE t

\* lines 244-250, as the 0-based index of the code
AudioStartIdx(audio, streamStartPos) ==
  LET ge == { i \in 1..Len(audio) : audio[i].FileOffset >= streamStartPos }
  IN IF ge = {} THEN 0
     ELSE (CHOOSE i \in ge : \A j \in ge : i <= j) - 1

\* the prologue with the SPS and the PPS sent in the wrong order
HeaderNalSwapped(k) ==
  CASE k = 1 -> NalVPS
    [] k = 2 -> NalPPS
    [] k = 3 -> NalSPS
    [] OTHER -> NalIDRWRadl

\* the k-th frame of the prologue, lines 272-275
HeaderNal(k) ==
  CASE k = 1 -> NalVPS
    [] k = 2 -> NalSPS
    [] k = 3 -> NalPPS
    [] OTHER -> NalIDRWRadl

\* index in Container of the first NAL a reader opened at pos parses
FirstNalAt(pos) ==
  LET idx == { i \in 1..Len(Container) : Container[i].Offset >= pos }
  IN IF idx = {} THEN Len(Container) + 1
     ELSE CHOOSE i \in idx : \A j \in idx : i <= j

Alive(r) == runs[r].pc \notin {"none", "done"}

NoRun ==
  [pc |-> "none", streamID |-> 0, ctxDone |-> FALSE, by |-> "",
   channel |-> 0, startTimestamp |-> 0, speed |-> 0,
   actualStartTime |-> 0, streamStartPos |-> 0, audioIdx |-> 0,
   send |-> "", hdr |-> 0, rpos |-> 0, nals |-> <<>>, ni |-> 0,
   currentTimeMs |-> 0, frameIntervalMs |-> 0,
   readerOpen |-> FALSE, audioOpen |-> FALSE, why |-> "", wrote |-> FALSE]

NoCmd == [action |-> "", channel |-> 0, timestamp |-> 0, speed |-> 0]

\* the session after HandleWebSocket has created it, lines 49-63
SessionInit ==
  /\ loaded \in BOOLEAN
  /\ rpc = "read"
  /\ cmd = NoCmd
  /\ paused = FALSE
  /\ nbad = 0
  /\ nreply = 0
  /\ cancel = 0
  /\ streamID = 0
  /\ streamCounter = 0
  /\ wg = 0
  /\ mu = Free
  /\ runs = [r \in Runs |-> NoRun]
  /\ wire = <<>>


(* ---------------- the send path ---------------- *)
\* a message as the client receives it; late records whether the run that
\* wrote it had been cancelled when the write was made
Msg(r, kind, ft, ts, off) ==
  [run |-> r, kind |-> kind, ft |-> ft, ts |-> ts, off |-> off,
   late |-> runs[r].ctxDone]

\* sendJSON writing without taking s.mu
SendJSONNoLock(p) == mu' = mu

\* s.mu.Lock() of sendJSON, line 149
SendJSONLock(p) == mu = Free /\ mu' = p

\* s.mu.Lock() of sendBytesWithID, line 156
SendBytesLock(p) == mu = Free /\ mu' = p

\* the guard of sendBytesWithID, lines 160-162
GuardPasses(r) == streamID = runs[r].streamID

\* what a run is about to send: the message it builds
Outgoing(r) ==
  LET run == runs[r]
      nal == run.nals[run.ni]
      af  == AudioFrames[run.audioIdx + 1]
  IN CASE run.send = "stream_start" ->
            Msg(r, "stream_start", 0, run.actualStartTime, 0)
       [] run.send = "hdr" ->
            Msg(r, "video", FrameTypeOf(HeaderNal(run.hdr)),
                run.actualStartTime * 1000, 0)
       [] run.send = "nal" ->
            Msg(r, "video", FrameTypeOf(nal.NalType), nal.TimestampMs,
                nal.FileOffset)
       [] run.send = "audio" ->
            Msg(r, "audio", 0, af.UnixTs * 1000, af.FileOffset)
       [] run.send = "stream_end" -> Msg(r, "stream_end", 0, 0, 0)
       [] OTHER -> Msg(r, "error", 0, 0, 0)

IsBinary(send) == send \in {"hdr", "nal", "audio"}

(* ---------------- the streaming goroutine ---------------- *)
\* a return of streamVideoWithAudio: the deferred calls run in Return
Leave(run, why) == [run EXCEPT !.pc = "ret", !.why = why]

\* prepare a send: the lock is taken in Lock, the write is made in Write
Send(run, what) == [run EXCEPT !.pc = "lock", !.send = what]

\* the for-range over nals moves to the next NAL, or back to the main loop
NextNal(run) ==
  IF run.ni < Len(run.nals)
    THEN [run EXCEPT !.pc = "nalctx", !.ni = run.ni + 1]
    ELSE [run EXCEPT !.pc = "loop", !.nals = <<>>, !.ni = 0]

\* streamVideoWithAudio going on without a header instead of answering
\* with the error and returning
ResolveNoReturn(r) ==
  /\ runs[r].pc = "resolve"
  /\ LET run == runs[r]
         segs == FindSegmentByTime(run.startTimestamp, run.channel)
         target == TargetOffset(AudioFrames, run.startTimestamp)
         pos == ReadVideoHeader(target)
     IN runs' = [runs EXCEPT ![r] =
          IF ~loaded \/ segs = {}
            THEN Send(run, "error")
            ELSE [run EXCEPT !.pc = "ctx0",
                             !.streamStartPos = pos,
                             !.actualStartTime =
                                ActualStartTime(AudioFrames, pos, run.startTimestamp),
                             !.audioIdx = AudioStartIdx(AudioFrames, pos)]]
  /\ UNCHANGED <<loaded, rpc, cmd, paused, nbad, nreply, cancel, streamID,
                 streamCounter, wg, mu, wire>>
  /\ UNCHANGED <<observerVars, storageVars, processVars>>

\* lines 177-251: storage lookup, seek resolution, header search
Resolve(r) ==
  /\ runs[r].pc = "resolve"
  /\ LET run == runs[r]
         segs == FindSegmentByTime(run.startTimestamp, run.channel)
         target == TargetOffset(AudioFrames, run.startTimestamp)
         pos == ReadVideoHeader(target)
     IN runs' = [runs EXCEPT ![r] =
          IF ~loaded \/ segs = {} \/ pos = 0
            THEN Send(run, "error")
            ELSE [run EXCEPT !.pc = "ctx0",
                             !.streamStartPos = pos,
                             !.actualStartTime =
                                ActualStartTime(AudioFrames, pos, run.startTimestamp),
                             !.audioIdx = AudioStartIdx(AudioFrames, pos)]]
  /\ UNCHANGED <<loaded, rpc, cmd, paused, nbad, nreply, cancel, streamID,
                 streamCounter, wg, mu, wire>>
  /\ UNCHANGED <<observerVars, storageVars, processVars>>

\* lines 254-257: the check before stream_start
CtxCheck(r) ==
  /\ runs[r].pc = "ctx0"
  /\ runs' = [runs EXCEPT ![r] =
       IF runs[r].ctxDone THEN Leave(runs[r], runs[r].by)
       ELSE Send(runs[r], "stream_start")]
  /\ UNCHANGED <<loaded, rpc, cmd, paused, nbad, nreply, cancel, streamID,
                 streamCounter, wg, mu, wire>>
  /\ UNCHANGED <<observerVars, storageVars, processVars>>

\* sendJSON / sendBytesWithID up to the write: take s.mu, check the guard
Lock(r) ==
  /\ runs[r].pc = "lock"
  /\ LET run == runs[r]
     IN IF IsBinary(run.send)
          THEN IF GuardPasses(r)
                 THEN /\ SendBytesLock(r)
                      /\ runs' = [runs EXCEPT ![r].pc = "write"]
                 ELSE \* lock, compare, unlock, return false
                      /\ mu = Free
                      /\ mu' = mu
                      /\ runs' = [runs EXCEPT ![r] =
                           IF run.send = "hdr"
                             THEN IF run.hdr < 4
                                    THEN [run EXCEPT !.hdr = run.hdr + 1]
                                    ELSE [run EXCEPT !.pc = "create"]
                             ELSE Leave(run, "guard")]
          ELSE /\ SendJSONLock(r)
               /\ runs' = [runs EXCEPT ![r].pc = "write"]
  /\ UNCHANGED <<loaded, rpc, cmd, paused, nbad, nreply, cancel, streamID,
                 streamCounter, wg, wire>>
  /\ UNCHANGED <<observerVars, storageVars, processVars>>

\* ws.WriteMessage and the unlock, then what the caller does next
WriteMessage(r) ==
  /\ runs[r].pc = "write"
  /\ wire' = Append(wire, Outgoing(r))
  /\ mu' = Free
  /\ LET run == [runs[r] EXCEPT !.wrote = @ \/ IsBinary(runs[r].send)]
     IN runs' = [runs EXCEPT ![r] =
          CASE run.send = "stream_start" ->
                 [Send(run, "hdr") EXCEPT !.hdr = 1]
            [] run.send = "hdr" ->
                 IF run.hdr < 4
                   THEN [Send(run, "hdr") EXCEPT !.hdr = run.hdr + 1]
                   ELSE [run EXCEPT !.pc = "create"]
            [] run.send = "nal" ->
                 IF IsVideoFrame(run.nals[run.ni].NalType)
                   THEN [run EXCEPT !.pc = "audio"]
                   ELSE NextNal(run)
            [] run.send = "audio" ->
                 [run EXCEPT !.pc = "audio", !.audioIdx = run.audioIdx + 1]
            [] run.send = "stream_end" -> Leave(run, run.why)
            [] OTHER -> Leave(run, "error")]
  /\ UNCHANGED <<loaded, rpc, cmd, paused, nbad, nreply, cancel, streamID,
                 streamCounter, wg>>
  /\ UNCHANGED <<storageVars, processVars>>

\* a write of the goroutine
Write(r) == WriteMessage(r) /\ UNCHANGED observerVars

\* SetFPS(25.0 * speed): frameIntervalMs = int64(1000 / fps)
FrameIntervalMs(speed) == 1000 \div (25 * speed)

\* lines 278-296: CreateStreamReader and os.Open of the audio handle; either
\* can fail when the container has gone from the medium
Create(r) ==
  /\ runs[r].pc = "create"
  /\ \E reader \in BOOLEAN, audio \in BOOLEAN :
       runs' = [runs EXCEPT ![r] =
         IF ~reader THEN Send(runs[r], "error")
         ELSE IF ~audio
           THEN [Send(runs[r], "error") EXCEPT !.readerOpen = TRUE]
           ELSE [runs[r] EXCEPT !.pc = "loop",
                                !.readerOpen = TRUE, !.audioOpen = TRUE,
                                !.rpos = FirstNalAt(runs[r].streamStartPos),
                                !.currentTimeMs = runs[r].actualStartTime * 1000,
                                !.frameIntervalMs = FrameIntervalMs(runs[r].speed)]]
  /\ UNCHANGED <<loaded, rpc, cmd, paused, nbad, nreply, cancel, streamID,
                 streamCounter, wg, mu, wire>>
  /\ UNCHANGED <<observerVars, storageVars, processVars>>

\* lines 305-310: the select at the top of the main loop
LoopTop(r) ==
  /\ runs[r].pc = "loop"
  /\ runs' = [runs EXCEPT ![r] =
       IF runs[r].ctxDone THEN Leave(runs[r], runs[r].by)
       ELSE [runs[r] EXCEPT !.pc = "read"]]
  /\ UNCHANGED <<loaded, rpc, cmd, paused, nbad, nreply, cancel, streamID,
                 streamCounter, wg, mu, wire>>
  /\ UNCHANGED <<observerVars, storageVars, processVars>>

\* the video NALs among the k NALs of the container from index first on
VideoAmong(first, k) ==
  Cardinality({ i \in first..(first + k - 1) :
                  IsVideoFrame(Container[i].NalType) })

\* the NalResult batch of ReadNextNals for the next k NALs: without I-frame
\* anchors every NAL carries currentTimeMs, which a video NAL then advances
NalResults(run, k) ==
  [i \in 1..k |->
     [NalType |-> Container[run.rpos + i - 1].NalType,
      FileOffset |-> Container[run.rpos + i - 1].Offset,
      TimestampMs |-> run.currentTimeMs +
                      run.frameIntervalMs * VideoAmong(run.rpos, i - 1)]]

\* lines 313-317 with ReadNextNals: a batch of whole NALs (never the last
\* one of the file, which the reader keeps as a partial NAL), or nothing at
\* the end of the file, or nothing because fillBuffer met a read error
ReadNextNals(r) ==
  /\ runs[r].pc = "read"
  /\ LET run == runs[r]
         left == (Len(Container) - 1) - run.rpos + 1
     IN \/ /\ left >= 1
           /\ \E k \in 1..MaxBatch :
                /\ k <= left
                /\ runs' = [runs EXCEPT ![r] =
                     [run EXCEPT !.pc = "nalctx",
                                 !.nals = NalResults(run, k),
                                 !.ni = 1,
                                 !.rpos = run.rpos + k,
                                 !.currentTimeMs = run.currentTimeMs +
                                    run.frameIntervalMs * VideoAmong(run.rpos, k)]]
        \/ /\ left < 1
           /\ runs' = [runs EXCEPT ![r] =
                [Send(run, "stream_end") EXCEPT !.why = "eof"]]
        \/ /\ left >= 1
           /\ runs' = [runs EXCEPT ![r] =
                [Send(run, "stream_end") EXCEPT !.why = "ioerr"]]
  /\ UNCHANGED <<loaded, rpc, cmd, paused, nbad, nreply, cancel, streamID,
                 streamCounter, wg, mu, wire>>
  /\ UNCHANGED <<observerVars, storageVars, processVars>>

\* lines 320-324: the check before every NAL
NalCtx(r) ==
  /\ runs[r].pc = "nalctx"
  /\ runs' = [runs EXCEPT ![r] =
       IF runs[r].ctxDone THEN Leave(runs[r], runs[r].by)
       ELSE Send(runs[r], "nal")]
  /\ UNCHANGED <<loaded, rpc, cmd, paused, nbad, nreply, cancel, streamID,
                 streamCounter, wg, mu, wire>>
  /\ UNCHANGED <<observerVars, storageVars, processVars>>

\* lines 341-356: the audio frames up to the offset of the video NAL
Audio(r) ==
  /\ runs[r].pc = "audio"
  /\ LET run == runs[r]
         nal == run.nals[run.ni]
     IN runs' = [runs EXCEPT ![r] =
          IF /\ run.audioIdx < Len(AudioFrames)
             /\ AudioFrames[run.audioIdx + 1].FileOffset <= nal.FileOffset
            THEN Send(run, "audio")
            ELSE [run EXCEPT !.pc = "sleep"]]
  /\ UNCHANGED <<loaded, rpc, cmd, paused, nbad, nreply, cancel, streamID,
                 streamCounter, wg, mu, wire>>
  /\ UNCHANGED <<observerVars, storageVars, processVars>>

\* lines 359-364: the pacing select; when the context is done and the timer
\* has fired too, either case may be taken
Sleep(r) ==
  /\ runs[r].pc = "sleep"
  /\ \/ /\ runs[r].ctxDone
        /\ runs' = [runs EXCEPT ![r] = Leave(runs[r], runs[r].by)]
     \/ runs' = [runs EXCEPT ![r] = NextNal(runs[r])]
  /\ UNCHANGED <<loaded, rpc, cmd, paused, nbad, nreply, cancel, streamID,
                 streamCounter, wg, mu, wire>>
  /\ UNCHANGED <<observerVars, storageVars, processVars>>

\* a return that forgets the deferred streamReader.Close and audioFile.Close
ReturnLeak(r) ==
  /\ runs[r].pc = "ret"
  /\ runs' = [runs EXCEPT ![r] =
       [NoRun EXCEPT !.pc = "done", !.why = runs[r].why,
                     !.wrote = runs[r].wrote,
                     !.readerOpen = runs[r].readerOpen,
                     !.audioOpen = runs[r].audioOpen]]
  /\ wg' = wg - 1
  /\ UNCHANGED <<loaded, rpc, cmd, paused, nbad, nreply, cancel, streamID,
                 streamCounter, mu, wire>>
  /\ UNCHANGED <<observerVars, storageVars, processVars>>

\* the deferred calls: audioFile.Close, streamReader.Close, then wg.Done;
\* the locals of the goroutine are gone
Return(r) ==
  /\ runs[r].pc = "ret"
  /\ runs' = [runs EXCEPT ![r] =
       [NoRun EXCEPT !.pc = "done", !.why = runs[r].why,
                     !.wrote = runs[r].wrote]]
  /\ wg' = wg - 1
  /\ UNCHANGED <<loaded, rpc, cmd, paused, nbad, nreply, cancel, streamID,
                 streamCounter, mu, wire>>
  /\ UNCHANGED <<observerVars, storageVars, processVars>>

\* one step of the goroutine startStream launched
streamVideoWithAudio(r) ==
  \/ Resolve(r)
  \/ CtxCheck(r)
  \/ Lock(r)
  \/ Write(r)
  \/ Create(r)
  \/ LoopTop(r)
  \/ ReadNextNals(r)
  \/ NalCtx(r)
  \/ Audio(r)
  \/ Sleep(r)
  \/ Return(r)

(* ---------------- the reader loop ---------------- *)
\* stop() without the s.wg.Wait()
WgWaitSkipped == TRUE

\* s.wg.Wait() of stop, line 121
WgWait == wg = 0

\* the switch launching the goroutine itself on play and seek, with the
\* session's current streamID, instead of calling stop() and startStream()
ReadMessageDirect ==
  /\ rpc = "read"
  /\ \/ \E a \in {"play", "seek"}, c \in Channels, t \in Timestamps,
           sp \in Speeds :
          /\ streamCounter < MaxRuns
          /\ streamCounter' = streamCounter + 1
          /\ wg' = wg + 1
          /\ runs' = [runs EXCEPT ![streamCounter + 1] =
               [NoRun EXCEPT !.pc = "resolve",
                             !.streamID = streamID,
                             !.channel = c,
                             !.startTimestamp = t,
                             !.speed = IF sp = 0 THEN 1 ELSE sp]]
          /\ paused' = FALSE
          /\ UNCHANGED <<rpc, cmd, nbad>>
     \/ /\ cmd' = [NoCmd EXCEPT !.action = "pause"]
        /\ paused' = TRUE
        /\ rpc' = "stop_lock"
        /\ UNCHANGED <<nbad, streamCounter, wg, runs>>
     \/ \E sp \in Speeds :
          /\ cmd' = [NoCmd EXCEPT !.action = "speed", !.speed = sp]
          /\ rpc' = "speed"
          /\ UNCHANGED <<paused, nbad, streamCounter, wg, runs>>
     \/ /\ nbad < MaxBad
        /\ nbad' = nbad + 1
        /\ cmd' = NoCmd
        /\ rpc' = "json_lock"
        /\ UNCHANGED <<paused, streamCounter, wg, runs>>
     \/ /\ cmd' = [NoCmd EXCEPT !.action = "close"]
        /\ paused' = FALSE
        /\ rpc' = "stop_lock"
        /\ UNCHANGED <<nbad, streamCounter, wg, runs>>
  /\ UNCHANGED <<loaded, nreply, cancel, streamID, mu, wire>>
  /\ UNCHANGED <<observerVars, storageVars, processVars>>

\* lines 66-104: ReadMessage, Unmarshal and the switch on msg.Action
ReadMessage ==
  /\ rpc = "read"
  /\ \/ \E a \in {"play", "seek"}, c \in Channels, t \in Timestamps,
           sp \in Speeds :
          /\ streamCounter < MaxRuns
          /\ cmd' = [action |-> a, channel |-> c, timestamp |-> t,
                     speed |-> sp]
          /\ paused' = FALSE
          /\ rpc' = "stop_lock"
          /\ nbad' = nbad
     \/ /\ cmd' = [NoCmd EXCEPT !.action = "pause"]
        /\ paused' = TRUE
        /\ rpc' = "stop_lock"
        /\ nbad' = nbad
     \/ \E sp \in Speeds :
          /\ cmd' = [NoCmd EXCEPT !.action = "speed", !.speed = sp]
          /\ rpc' = "speed"
          /\ UNCHANGED <<paused, nbad>>
     \/ /\ nbad < MaxBad
        /\ nbad' = nbad + 1
        /\ cmd' = NoCmd
        /\ rpc' = "json_lock"
        /\ paused' = paused
     \/ /\ cmd' = [NoCmd EXCEPT !.action = "close"]
        /\ paused' = FALSE
        /\ rpc' = "stop_lock"
        /\ nbad' = nbad
  /\ UNCHANGED <<loaded, nreply, cancel, streamID, streamCounter, wg, mu,
                 runs, wire>>
  /\ UNCHANGED <<observerVars, storageVars, processVars>>

\* lines 102-103: a speed command is logged
LogSpeed ==
  /\ rpc = "speed"
  /\ rpc' = "read"
  /\ cmd' = NoCmd
  /\ UNCHANGED <<loaded, paused, nbad, nreply, cancel, streamID, streamCounter, wg,
                 mu, runs, wire>>
  /\ UNCHANGED <<storageVars, processVars>>

\* case "speed" of the switch
Speed == LogSpeed /\ UNCHANGED observerVars

\* lines 76 and 149: the reader loop takes s.mu to answer a malformed message
JsonLock ==
  /\ rpc = "json_lock"
  /\ SendJSONLock(Reader)
  /\ rpc' = "json_write"
  /\ UNCHANGED <<loaded, cmd, paused, nbad, nreply, cancel, streamID, streamCounter,
                 wg, runs, wire>>
  /\ UNCHANGED <<observerVars, storageVars, processVars>>

\* the error answer that also tears down the current stream
JsonWriteCancels ==
  /\ rpc = "json_write"
  /\ nreply' = nreply + 1
  /\ mu' = Free
  /\ rpc' = "read"
  /\ IF cancel # 0
       THEN /\ runs' = IF Alive(cancel)
                         THEN [runs EXCEPT ![cancel].ctxDone = TRUE,
                                           ![cancel].by = "close"]
                         ELSE runs
            /\ cancel' = 0
       ELSE UNCHANGED <<runs, cancel>>
  /\ UNCHANGED <<loaded, cmd, paused, nbad, streamID, streamCounter, wg, wire>>
  /\ UNCHANGED <<observerVars, storageVars, processVars>>

\* lines 150-151: the error is written, s.mu released
JsonWrite ==
  /\ rpc = "json_write"
  /\ nreply' = nreply + 1
  /\ mu' = Free
  /\ rpc' = "read"
  /\ UNCHANGED <<loaded, cmd, paused, nbad, cancel, streamID, streamCounter,
                 wg, runs, wire>>
  /\ UNCHANGED <<observerVars, storageVars, processVars>>

\* why a cancelled run was cancelled: the command whose stop() signalled it
CancelledBy(action) ==
  CASE action \in {"play", "seek"} -> "preempt"
    [] action = "pause" -> "pause"
    [] OTHER -> "close"

\* stop() that keeps s.mu locked while it waits
StopLockHolding ==
  /\ rpc = "stop_lock"
  /\ mu = Free
  /\ mu' = Reader
  /\ IF cancel # 0
       THEN /\ runs' = IF Alive(cancel)
                         THEN [runs EXCEPT ![cancel].ctxDone = TRUE,
                                           ![cancel].by = CancelledBy(cmd.action)]
                         ELSE runs
            /\ cancel' = 0
       ELSE UNCHANGED <<runs, cancel>>
  /\ rpc' = "stop_wait"
  /\ UNCHANGED <<loaded, cmd, paused, nbad, nreply, streamID, streamCounter, wg,
                 wire>>
  /\ UNCHANGED <<observerVars, storageVars, processVars>>

\* lines 113-118: under s.mu, cancel the current run and forget its cancel
\* (cancelling the context of a goroutine that has exited has no effect)
StopLock ==
  /\ rpc = "stop_lock"
  /\ mu = Free
  /\ mu' = mu
  /\ IF cancel # 0
       THEN /\ runs' = IF Alive(cancel)
                         THEN [runs EXCEPT ![cancel].ctxDone = TRUE,
                                           ![cancel].by = CancelledBy(cmd.action)]
                         ELSE runs
            /\ cancel' = 0
       ELSE UNCHANGED <<runs, cancel>>
  /\ rpc' = "stop_wait"
  /\ UNCHANGED <<loaded, cmd, paused, nbad, nreply, streamID, streamCounter, wg,
                 wire>>
  /\ UNCHANGED <<observerVars, storageVars, processVars>>

\* line 121, and the return to the caller of stop
StopWait ==
  /\ rpc = "stop_wait"
  /\ WgWait
  /\ rpc' = CASE cmd.action \in {"play", "seek"} -> "start"
              [] cmd.action = "close" -> "done"
              [] OTHER -> "read"
  /\ cmd' = IF cmd.action \in {"play", "seek"} THEN cmd ELSE NoCmd
  /\ UNCHANGED <<loaded, paused, nbad, nreply, cancel, streamID, streamCounter, wg,
                 mu, runs, wire>>
  /\ UNCHANGED <<observerVars, storageVars, processVars>>

\* startStream without the s.wg.Add(1)
startStreamNoAdd ==
  /\ rpc = "start"
  /\ mu = Free
  /\ mu' = mu
  /\ LET newStreamID == streamCounter + 1
     IN /\ streamCounter' = newStreamID
        /\ cancel' = newStreamID
        /\ streamID' = newStreamID
        /\ wg' = wg
        /\ runs' = [r \in Runs |->
             IF r = newStreamID
               THEN [NoRun EXCEPT !.pc = "resolve",
                                  !.streamID = newStreamID,
                                  !.channel = cmd.channel,
                                  !.startTimestamp = cmd.timestamp,
                                  !.speed = IF cmd.speed = 0 THEN 1 ELSE cmd.speed]
               ELSE IF r < newStreamID - 1 /\ runs[r].pc = "done"
                 THEN [NoRun EXCEPT !.pc = "done"]
                 ELSE runs[r]]
  /\ wire' = IF \A r \in Runs : ~Alive(r) THEN <<>> ELSE wire
  /\ rpc' = "read"
  /\ cmd' = NoCmd
  /\ UNCHANGED <<loaded, paused, nbad, nreply>>
  /\ UNCHANGED <<observerVars, storageVars, processVars>>

\* lines 83-85 and 125-140: the speed default, then startStream; how a
\* goroutine ended is remembered for its successor only
startStream ==
  /\ rpc = "start"
  /\ mu = Free
  /\ mu' = mu
  /\ LET newStreamID == streamCounter + 1
     IN /\ streamCounter' = newStreamID
        /\ cancel' = newStreamID
        /\ streamID' = newStreamID
        /\ wg' = wg + 1
        /\ runs' = [r \in Runs |->
             IF r = newStreamID
               THEN [NoRun EXCEPT !.pc = "resolve",
                                  !.streamID = newStreamID,
                                  !.channel = cmd.channel,
                                  !.startTimestamp = cmd.timestamp,
                                  !.speed = IF cmd.speed = 0 THEN 1 ELSE cmd.speed]
               ELSE IF r < newStreamID - 1 /\ runs[r].pc = "done"
                 THEN [NoRun EXCEPT !.pc = "done"]
                 ELSE runs[r]]
  /\ wire' = IF \A r \in Runs : ~Alive(r) THEN <<>> ELSE wire
  /\ rpc' = "read"
  /\ cmd' = NoCmd
  /\ UNCHANGED <<loaded, paused, nbad, nreply>>
  /\ UNCHANGED <<observerVars, storageVars, processVars>>

\* one step of the connection handler
HandleWebSocket ==
  \/ ReadMessage
  \/ Speed
  \/ JsonLock
  \/ JsonWrite
  \/ StopLock
  \/ StopWait
  \/ startStream

(* ---------------- the storage: segment table and lookups ---------------- *)
\* TPSStorage.segments as Load read them from TIndex00.tps, in table order;
\* FileIndex is the position in the table; segment 0 is the one the session
\* above plays
Segments ==
  << [FileIndex |-> 0, Channel |-> 2, StartTime |-> 10, EndTime |-> 20],
     [FileIndex |-> 1, Channel |-> 2, StartTime |-> 20, EndTime |-> 30],
     [FileIndex |-> 2, Channel |-> 1, StartTime |-> 10, EndTime |-> 20],
     [FileIndex |-> 3, Channel |-> 1, StartTime |-> 40, EndTime |-> 50],
     [FileIndex |-> 4, Channel |-> 2, StartTime |-> 60, EndTime |-> 70] >>

FileIndexes == { Segments[i].FileIndex : i \in 1..Len(Segments) }

\* the containers TRec%06d.tps that GetRecFile finds and that parse
RecFiles == {0, 1, 2, 3}

\* a nil *SegmentRecord
NoSegment == [FileIndex |-> -1, Channel |-> 0, StartTime |-> 0, EndTime |-> 0]

\* the segment of the table with this file index
SegmentOf(fileIndex) ==
  Segments[CHOOSE i \in 1..Len(Segments) : Segments[i].FileIndex = fileIndex]

\* the CachedSegmentInfo buildSegmentCache returns for a segment
CachedSegmentInfo(fileIndex) == [Segment |-> SegmentOf(fileIndex)]

\* a cachedSegments map holding the infos of these file indexes
CacheOf(S) == [i \in S |-> CachedSegmentInfo(i)]

\* the condition of lines 1118 and 1125: channel matches, bounds inclusive
Contains(seg, timestamp, channel) ==
  seg.Channel = channel /\ seg.StartTime <= timestamp /\ timestamp <= seg.EndTime

\* FindSegmentByTime(timestamp, channel, cachedOnly): what it can return.
\* Over s.segments the scan returns the first match of the table; over the
\* map s.cachedSegments the range meets the entries in an order the runtime
\* chooses, so any cached match can be the one returned
FindSegmentByTimeResults(timestamp, channel, cachedOnly) ==
  IF cachedOnly
    THEN LET hits == { cachedSegments[i].Segment : i \in
                         { j \in DOMAIN cachedSegments :
                             Contains(cachedSegments[j].Segment, timestamp,
                                      channel) } }
         IN IF hits = {} THEN {NoSegment} ELSE hits
    ELSE LET hits == { i \in 1..Len(Segments) :
                         Contains(Segments[i], timestamp, channel) }
         IN IF hits = {} THEN {NoSegment}
            ELSE {Segments[CHOOSE i \in hits : \A j \in hits : i <= j]}

\* the VPS cache entries of the stopChan session, in table order
VPSCache ==
  SelectSeq(Segments, LAMBDA seg : seg.FileIndex \in DOMAIN cachedSegments)

\* findEntryForTime(timestamp, channel): the first entry of the channel that
\* contains the instant, else the first entry of any channel that does
findEntryForTime(timestamp, channel) ==
  LET entries == VPSCache
      same == { i \in 1..Len(entries) : Contains(entries[i], timestamp, channel) }
      any  == { i \in 1..Len(entries) :
                  entries[i].StartTime <= timestamp /\
                  timestamp <= entries[i].EndTime }
  IN IF same # {} THEN entries[CHOOSE i \in same : \A j \in same : i <= j]
     ELSE IF any # {} THEN entries[CHOOSE i \in any : \A j \in any : i <= j]
     ELSE NoSegment

\* the instants and channels looked up
LookupTimes == {5, 20, 45}
LookupChannels == {1, 2}
\* lookups made on one state of the storage
MaxLookups == 2

\* a call of FindSegmentByTime
FindSegmentByTime_Call ==
  /\ Len(lookups) < MaxLookups
  /\ \E timestamp \in LookupTimes, channel \in LookupChannels,
        cachedOnly \in BOOLEAN :
       \E seg \in FindSegmentByTimeResults(timestamp, channel, cachedOnly) :
         lookups' = Append(lookups,
           [fn |-> "FindSegmentByTime", timestamp |-> timestamp,
            channel |-> channel, cachedOnly |-> cachedOnly, seg |-> seg])
  /\ UNCHANGED <<sessionVars, observerVars, processVars>>
  /\ UNCHANGED <<cachedSegments, bc, workChan, resultChan, pool, progress,
                 builds>>

\* seek resolution of the stream_id session, lines 185-189 of
\* streamVideoWithAudio: nil is answered with the error
SeekSegment ==
  /\ Len(lookups) < MaxLookups
  /\ \E timestamp \in LookupTimes, channel \in LookupChannels :
       \E seg \in FindSegmentByTimeResults(timestamp, channel, TRUE) :
         lookups' = Append(lookups,
           [fn |-> "seek", timestamp |-> timestamp,
            channel |-> channel, cachedOnly |-> TRUE, seg |-> seg])
  /\ UNCHANGED <<sessionVars, observerVars, processVars>>
  /\ UNCHANGED <<cachedSegments, bc, workChan, resultChan, pool, progress,
                 builds>>

\* seek resolution of the stopChan session: findEntryForTime
SeekEntry ==
  /\ Len(lookups) < MaxLookups
  /\ \E timestamp \in LookupTimes, channel \in LookupChannels :
       lookups' = Append(lookups,
         [fn |-> "findEntryForTime", timestamp |-> timestamp,
          channel |-> channel, cachedOnly |-> TRUE,
          seg |-> findEntryForTime(timestamp, channel)])
  /\ UNCHANGED <<sessionVars, observerVars, processVars>>
  /\ UNCHANGED <<cachedSegments, bc, workChan, resultChan, pool, progress,
                 builds>>

(* ---------------- the storage: BuildCacheWithWorkers ---------------- *)
\* largest workers argument of a call
MaxWorkersArg == 5
\* calls of BuildCacheWithWorkers on one storage
MaxCalls == 2

\* the fileIndices arguments: NilIndices stands for nil (every segment)
NilIndices == {-1}
FileIndicesArgs == {NilIndices, {0}, {1, 4}, {0, 2, 3}, {7}}

\* lines 836-851: the segments to cache, as file indexes in table order
SegmentsToCache(fileIndices) ==
  LET picked == SelectSeq(Segments,
                  LAMBDA seg : fileIndices = NilIndices \/
                               seg.FileIndex \in fileIndices)
  IN [i \in 1..Len(picked) |-> picked[i].FileIndex]

\* the size of the pool without the cap of 4
WorkerCountUncapped(workers, total) ==
  LET dflt == IF workers <= 0 THEN 2 ELSE workers
  IN IF dflt > total THEN total ELSE dflt

\* lines 860-868: the size of the pool
WorkerCount(workers, total) ==
  LET dflt   == IF workers <= 0 THEN 2 ELSE workers
      capped == IF dflt > 4 THEN 4 ELSE dflt
  IN IF capped > total THEN total ELSE capped

NoCall ==
  [pc |-> "idle", arg |-> 0, requested |-> {}, total |-> 0, workers |-> 0,
   closed |-> FALSE, processed |-> 0, cachedCount |-> 0,
   cacheBuilding |-> FALSE, cacheProgress |-> 0, ret |-> 0,
   calls |-> 0, before |-> <<>>]

IdlePool == [waiting |-> 0, building |-> {}, exited |-> 0]

NoBuilds == [i \in FileIndexes |-> 0]

\* the storage after NewTPSStorage and Load, with nothing cached but what
\* the set names
StorageInit(cached) ==
  /\ cachedSegments = CacheOf(cached)
  /\ lookups = <<>>
  /\ bc = NoCall
  /\ workChan = <<>>
  /\ resultChan = <<>>
  /\ pool = IdlePool
  /\ progress = <<>>
  /\ builds = NoBuilds

\* lines 831-919: the call up to the start of the workers. bc.calls counts
\* the calls made, bc.before remembers the map the call found
BuildCacheWithWorkers ==
  /\ bc.pc = "idle"
  /\ bc.calls < MaxCalls
  /\ \E fileIndices \in FileIndicesArgs, workers \in 0..MaxWorkersArg :
       LET segmentsToCache == SegmentsToCache(fileIndices)
           total == Len(segmentsToCache)
       IN IF ~loaded \/ total = 0
            THEN /\ bc' = [NoCall EXCEPT !.pc = "ret", !.arg = workers,
                                         !.cacheProgress = bc.cacheProgress,
                                         !.calls = bc.calls + 1,
                                         !.before = cachedSegments]
                 /\ UNCHANGED <<workChan, pool>>
            ELSE /\ bc' = [NoCall EXCEPT
                             !.pc = "collect", !.arg = workers,
                             !.requested =
                                { segmentsToCache[i] : i \in 1..total },
                             !.total = total,
                             !.workers = WorkerCount(workers, total),
                             !.cacheBuilding = TRUE,
                             !.calls = bc.calls + 1,
                             !.before = cachedSegments]
                 /\ workChan' = segmentsToCache
                 /\ pool' = [IdlePool EXCEPT
                               !.waiting = WorkerCount(workers, total)]
  /\ resultChan' = <<>>
  /\ progress' = <<>>
  /\ builds' = NoBuilds
  /\ UNCHANGED <<sessionVars, observerVars, processVars, cachedSegments, lookups>>

\* line 904: a worker receives from workChan, or leaves the range loop when
\* the closed channel is empty
WorkerReceive ==
  /\ bc.pc = "collect"
  /\ pool.waiting > 0
  /\ IF workChan # <<>>
       THEN /\ pool' = [pool EXCEPT !.waiting = @ - 1,
                                    !.building = @ \cup {Head(workChan)}]
            /\ workChan' = Tail(workChan)
       ELSE /\ pool' = [pool EXCEPT !.waiting = @ - 1, !.exited = @ + 1]
            /\ UNCHANGED workChan
  /\ UNCHANGED <<sessionVars, observerVars, processVars, cachedSegments, lookups, bc,
                 resultChan, progress, builds>>

\* lines 905-910: buildSegmentCache returns and the result is sent; it is
\* nil when the container is missing or its frame index is empty
WorkerBuild ==
  /\ bc.pc = "collect"
  /\ \E fileIndex \in pool.building :
       /\ builds' = [builds EXCEPT ![fileIndex] = @ + 1]
       /\ resultChan' = Append(resultChan,
            [fileIndex |-> fileIndex, info |-> fileIndex \in RecFiles])
       /\ pool' = [pool EXCEPT !.building = @ \ {fileIndex},
                                !.waiting = @ + 1]
  /\ UNCHANGED <<sessionVars, observerVars, processVars, cachedSegments, lookups, bc,
                 workChan, progress>>

\* lines 916-919: every worker has left, resultChan is closed
CloseResults ==
  /\ bc.pc = "collect"
  /\ ~bc.closed
  /\ pool.exited = bc.workers
  /\ bc' = [bc EXCEPT !.closed = TRUE]
  /\ UNCHANGED <<sessionVars, observerVars, processVars, cachedSegments, lookups, workChan,
                 resultChan, pool, progress, builds>>

\* the map after s.cachedSegments[fileIndex] = info
Insert(map, fileIndex) ==
  [i \in DOMAIN map \cup {fileIndex} |->
     IF i = fileIndex THEN CachedSegmentInfo(fileIndex) ELSE map[i]]

\* what a progressCallback invocation is told, and what was true of the
\* segment when it was told
Callback(current, total, fileIndex, map) ==
  [current |-> current, total |-> total, fileIndex |-> fileIndex,
   built |-> builds[fileIndex] > 0 /\ fileIndex \notin pool.building,
   inserted |-> fileIndex \in DOMAIN map]

\* the collector invoking the callback before it stores the result
CollectCallbackFirst ==
  /\ bc.pc = "collect"
  /\ resultChan # <<>>
  /\ LET res == Head(resultChan)
         processed == bc.processed + 1
         map == IF res.info THEN Insert(cachedSegments, res.fileIndex)
                ELSE cachedSegments
     IN /\ cachedSegments' = map
        /\ bc' = [bc EXCEPT
                    !.processed = processed,
                    !.cachedCount = IF res.info THEN @ + 1 ELSE @,
                    !.cacheProgress = (processed * 100) \div bc.total]
        /\ progress' = Append(progress,
             Callback(processed, bc.total, res.fileIndex, cachedSegments))
  /\ resultChan' = Tail(resultChan)
  /\ UNCHANGED <<sessionVars, observerVars, processVars, lookups, workChan, pool, builds>>

\* lines 924-941: one result is collected, the progress is updated and the
\* callback is invoked
Collect ==
  /\ bc.pc = "collect"
  /\ resultChan # <<>>
  /\ LET res == Head(resultChan)
         processed == bc.processed + 1
         map == IF res.info THEN Insert(cachedSegments, res.fileIndex)
                ELSE cachedSegments
     IN /\ cachedSegments' = map
        /\ bc' = [bc EXCEPT
                    !.processed = processed,
                    !.cachedCount = IF res.info THEN @ + 1 ELSE @,
                    !.cacheProgress = (processed * 100) \div bc.total]
        /\ progress' = Append(progress,
             Callback(processed, bc.total, res.fileIndex, map))
  /\ resultChan' = Tail(resultChan)
  /\ UNCHANGED <<sessionVars, observerVars, processVars, lookups, workChan, pool, builds>>

\* lines 943-954: resultChan is closed and drained, the call returns
CollectDone ==
  /\ bc.pc = "collect"
  /\ bc.closed
  /\ resultChan = <<>>
  /\ bc' = [bc EXCEPT !.pc = "ret", !.cacheBuilding = FALSE,
                      !.cacheProgress = 100, !.ret = bc.cachedCount]
  /\ UNCHANGED <<sessionVars, observerVars, processVars, cachedSegments, lookups, workChan,
                 resultChan, pool, progress, builds>>

\* the caller has the count; the locals of the call are gone
BuildCacheReturn ==
  /\ bc.pc = "ret"
  /\ bc' = [NoCall EXCEPT !.calls = bc.calls,
                          !.cacheProgress = bc.cacheProgress]
  /\ pool' = IdlePool
  /\ progress' = <<>>
  /\ builds' = NoBuilds
  /\ UNCHANGED <<sessionVars, observerVars, processVars, cachedSegments, lookups, workChan,
                 resultChan>>

(* ---------------- the storage: the cache-build status ---------------- *)
NoStatus ==
  [Status |-> "", Progress |-> 0, Total |-> 0, Current |-> 0, Cached |-> 0,
   pc |-> "", processed |-> 0, total |-> 0]

\* TPSStorage.GetCacheStatus under s.mu.RLock, as DVRServer.GetCacheStatus
\* hands it out; pc, processed and total are the point of the build at
\* which the snapshot was taken
CacheStatus ==
  LET building == bc.cacheBuilding
      progress_ == bc.cacheProgress
      totalSegments == Len(Segments)
      cachedSegments_ == Cardinality(DOMAIN cachedSegments)
  IN [Status   |-> IF building THEN "building" ELSE "ready",
      Progress |-> IF building THEN progress_ ELSE 100,
      Total    |-> totalSegments,
      Current  |-> cachedSegments_,
      Cached   |-> cachedSegments_,
      pc |-> bc.pc, processed |-> bc.processed, total |-> bc.total]

\* GET /cache/status while the storage is loaded
GetCacheStatus ==
  /\ loaded
  /\ status' = CacheStatus
  /\ UNCHANGED besidesStatus

\* lines 924-932: the collector takes a result and stores it, under one
\* hold of s.mu
CollectStore ==
  /\ bc.pc = "collect"
  /\ resultChan # <<>>
  /\ LET res == Head(resultChan)
     IN /\ cachedSegments' = IF res.info
                               THEN Insert(cachedSegments, res.fileIndex)
                               ELSE cachedSegments
        /\ bc' = [bc EXCEPT
                    !.pc = "publish",
                    !.processed = @ + 1,
                    !.cachedCount = IF res.info THEN @ + 1 ELSE @]
  /\ UNCHANGED <<sessionVars, observerVars, processVars, lookups, workChan,
                 resultChan, pool, progress, builds>>

\* lines 934-941: the progress is published under a second hold of s.mu and
\* the callback is invoked
CollectPublish ==
  /\ bc.pc = "publish"
  /\ bc' = [bc EXCEPT !.pc = "collect",
                      !.cacheProgress = (bc.processed * 100) \div bc.total]
  /\ progress' = Append(progress,
       Callback(bc.processed, bc.total, Head(resultChan).fileIndex,
                cachedSegments))
  /\ resultChan' = Tail(resultChan)
  /\ UNCHANGED <<sessionVars, observerVars, processVars, cachedSegments,
                 lookups, workChan, pool, builds>>

StatusInit == status = NoStatus

(* ---------------- the master index and Load ---------------- *)
TPSIndexMagic == 523124044
MinValidTimestamp == 1577836800
\* line 567: the slots read beyond entryCount
IndexSlack == 20

\* largest entryCount of an index file, and the most slots it holds
MaxEntryCount == 2
MaxSlots == 24

\* the 64-byte slots found in the files: channel is the byte at 4, the
\* times are the 32-bit words at 8 and 12
SlotKinds ==
  << [channel |-> 2, startTime |-> MinValidTimestamp,
      endTime |-> MinValidTimestamp + 60],
     [channel |-> 1, startTime |-> MinValidTimestamp + 100,
      endTime |-> MinValidTimestamp + 101],
     [channel |-> 0, startTime |-> MinValidTimestamp + 200,
      endTime |-> MinValidTimestamp + 260],
     [channel |-> 254, startTime |-> MinValidTimestamp + 300,
      endTime |-> MinValidTimestamp + 360],
     [channel |-> 2, startTime |-> MinValidTimestamp - 1,
      endTime |-> MinValidTimestamp + 50],
     [channel |-> 2, startTime |-> MinValidTimestamp + 10,
      endTime |-> MinValidTimestamp + 10] >>

\* n slots whose kinds follow the pattern (p, q)
SlotsOf(n, p, q) ==
  [i \in 1..n |-> SlotKinds[((i * p + q) % Len(SlotKinds)) + 1]]

MissingIndex ==
  [exists |-> FALSE, short |-> FALSE, magic |-> 0, fileCount |-> 0,
   entryCount |-> 0, slots |-> <<>>]

\* the index files: missing, shorter than its magic, with a wrong magic, or
\* with a header and slots
IndexFiles ==
  {MissingIndex, [MissingIndex EXCEPT !.exists = TRUE, !.short = TRUE]} \cup
  { [exists |-> TRUE, short |-> FALSE, magic |-> m, fileCount |-> n,
     entryCount |-> e, slots |-> SlotsOf(n, pq[1], pq[2])] :
      m \in {TPSIndexMagic, 0}, e \in 0..MaxEntryCount, n \in 0..MaxSlots,
      pq \in (0..2) \X (0..5) }

\* lines 578-586 with a slot kept whatever its times are
KeepSlotAnyTime(slot) ==
  ~(slot.channel = 0 \/ slot.channel = 254)

\* lines 578-586: the slots that are not discarded
KeepSlot(slot) ==
  /\ ~(slot.channel = 0 \/ slot.channel = 254)
  /\ ~(slot.startTime < MinValidTimestamp \/ slot.endTime <= slot.startTime)

\* ParseTIndex: the segments, the counts of the header, the error, and the
\* number of slots the loop has read from the file
ParseTIndex(f) ==
  LET failed(e) == [segments |-> <<>>, fileCount |-> 0, entryCount |-> 0,
                    err |-> e, read |-> 0]
      limit == f.entryCount + IndexSlack
      read  == IF Len(f.slots) < limit THEN Len(f.slots) ELSE limit
      \* segmentIndex counts every slot read, kept or not
      table == [i \in 1..read |->
                  [FileIndex |-> i - 1, Channel |-> f.slots[i].channel,
                   StartTime |-> f.slots[i].startTime,
                   EndTime |-> f.slots[i].endTime]]
      kept  == SelectSeq(table, LAMBDA seg : KeepSlot(f.slots[seg.FileIndex + 1]))
  IN IF ~f.exists THEN failed("open")
     ELSE IF f.short THEN failed("read")
     ELSE IF f.magic # TPSIndexMagic THEN failed("invalid magic")
     ELSE [segments |-> kept, fileCount |-> f.fileCount,
           entryCount |-> f.entryCount, err |-> "", read |-> read]

\* no DVRServer yet
NoServer ==
  [made |-> FALSE, dvrLoaded |-> FALSE, loaded |-> FALSE, segments |-> <<>>,
   fileCount |-> 0, entryCount |-> 0, err |-> "", read |-> 0,
   cached |-> {}]

NoAnswer == [asked |-> FALSE, kind |-> "", closed |-> FALSE]

\* DVRServer.Load with a Load of the storage that goes on after an error
LoadIgnoringError ==
  /\ ~tps.made
  /\ LET parsed == ParseTIndex(index)
     IN tps' = [NoServer EXCEPT
                  !.made = TRUE, !.err = parsed.err, !.read = parsed.read,
                  !.segments = parsed.segments,
                  !.fileCount = parsed.fileCount,
                  !.entryCount = parsed.entryCount,
                  !.loaded = TRUE, !.dvrLoaded = TRUE]
  /\ UNCHANGED <<besidesLoad, index, answer>>

\* DVRServer.Load: a new TPSStorage is made and loaded; Stat fails for a
\* missing file as Open would
Load ==
  /\ ~tps.made
  /\ LET parsed == ParseTIndex(index)
     IN tps' = IF parsed.err # ""
                 THEN [NoServer EXCEPT !.made = TRUE, !.err = parsed.err]
                 ELSE [NoServer EXCEPT
                         !.made = TRUE, !.read = parsed.read,
                         !.segments = parsed.segments,
                         !.fileCount = parsed.fileCount,
                         !.entryCount = parsed.entryCount,
                         !.loaded = TRUE, !.dvrLoaded = TRUE]
  /\ UNCHANGED <<besidesLoad, index, answer>>

\* DVRServer.BuildVPSCache: every segment of the table is requested; here
\* every build succeeds
BuildVPSCache ==
  /\ tps.dvrLoaded
  /\ tps.made
  /\ tps.cached = {}
  /\ tps' = [tps EXCEPT !.cached =
               { tps.segments[i].FileIndex : i \in 1..Len(tps.segments) }]
  /\ UNCHANGED <<besidesLoad, index, answer>>

\* the instants a session asks for
PlayTimes ==
  {MinValidTimestamp, MinValidTimestamp + 100, MinValidTimestamp + 1000}

\* lines 176-189 of streamVideoWithAudio on this server: the first answer
\* to a play or seek; after an error the goroutine returns and the reader
\* loop goes on
PlayOrSeek ==
  /\ \E startTimestamp \in PlayTimes, channel \in LookupChannels :
       LET hits == { i \in 1..Len(tps.segments) :
                       /\ tps.segments[i].FileIndex \in tps.cached
                       /\ tps.segments[i].Channel = channel
                       /\ tps.segments[i].StartTime <= startTimestamp
                       /\ startTimestamp <= tps.segments[i].EndTime }
       IN answer' =
            IF ~tps.made \/ ~tps.dvrLoaded
              THEN [asked |-> TRUE, kind |-> "error", closed |-> FALSE]
            ELSE IF hits = {}
              THEN [asked |-> TRUE, kind |-> "error", closed |-> FALSE]
            ELSE [asked |-> TRUE, kind |-> "stream", closed |-> FALSE]
  /\ UNCHANGED <<besidesLoad, index, tps>>

\* no volume
LoadIdle == index = MissingIndex /\ tps = NoServer /\ answer = NoAnswer

(* ---------------- the containers: frame index and caches ---------------- *)
TRecFrameIndexMagic == 1279077919
TRecIndexRegionStart == 261095424
ChannelVideo1 == 2
ChannelAudio == 3
ChannelVideo2 == 258
CacheVersion == 2
VPSCacheVersion == 1

\* the most 44-byte records in the index region of a container
MaxDisk == 3

\* the 44-byte records found in the index region: magic at 0, FrameType at
\* 4, Channel at 8, FileOffset at 16, TimestampUs at 24, UnixTs at 32
DiskKinds ==
  << [magic |-> TRecFrameIndexMagic, FrameType |-> 1, Channel |-> 2,
      FileOffset |-> 100, TimestampUs |-> 300,
      UnixTs |-> MinValidTimestamp + 12],
     [magic |-> TRecFrameIndexMagic, FrameType |-> 0, Channel |-> 3,
      FileOffset |-> 50, TimestampUs |-> 100,
      UnixTs |-> MinValidTimestamp + 10],
     [magic |-> TRecFrameIndexMagic, FrameType |-> 3, Channel |-> 258,
      FileOffset |-> 200, TimestampUs |-> 300,
      UnixTs |-> MinValidTimestamp + 12],
     [magic |-> TRecFrameIndexMagic, FrameType |-> 1, Channel |-> 5,
      FileOffset |-> 20, TimestampUs |-> 50,
      UnixTs |-> MinValidTimestamp + 9],
     [magic |-> TRecFrameIndexMagic, FrameType |-> 1, Channel |-> 2,
      FileOffset |-> 10, TimestampUs |-> 20,
      UnixTs |-> MinValidTimestamp],
     [magic |-> 0, FrameType |-> 1, Channel |-> 2,
      FileOffset |-> 5, TimestampUs |-> 10,
      UnixTs |-> MinValidTimestamp + 8] >>

\* the index regions: up to MaxDisk records of these kinds, the later
\* records of a region with the earlier times, two by two
DiskSeqs ==
  UNION { { [i \in 1..n |->
               [DiskKinds[k[i]] EXCEPT
                  !.TimestampUs = @ + 1000 * ((n - i) \div 2)]] :
              k \in [1..n -> 1..Len(DiskKinds)] } : n \in 0..MaxDisk }

\* the offsets of the VPS pattern in the data region of a container
VPSLists == { <<>>, <<40, 150>> }

MissingRec == [exists |-> FALSE, hash |-> 0, disk |-> <<>>, vps |-> <<>>]

\* the containers; hash is what getFileHash makes of the name, the
\* modification time and the first 4 KiB
Recs ==
  {MissingRec} \cup
  { [exists |-> TRUE, hash |-> 1, disk |-> d, vps |-> v] :
      d \in DiskSeqs, v \in VPSLists }

\* line 452 with every channel kept
KeepRecordAnyChannel(r) == r.UnixTs > MinValidTimestamp

\* line 452: the records that are kept
KeepRecord(r) ==
  /\ r.UnixTs > MinValidTimestamp
  /\ (r.Channel = ChannelVideo1 \/ r.Channel = ChannelAudio \/
      r.Channel = ChannelVideo2)

\* the orders in which the places of S can come out of a sort by key: each
\* time any place with the least key of those left
RECURSIVE Orders(_, _, _)
Orders(recs, key, S) ==
  IF S = {} THEN {<<>>}
  ELSE UNION { { <<i>> \o rest : rest \in Orders(recs, key, S \ {i}) } :
               i \in { m \in S : \A j \in S : recs[m][key] <= recs[j][key] } }

\* sort.Slice with this key: the sort is not stable, so records with equal
\* keys come out in any order
SortedBy(recs, key) ==
  { [i \in 1..Len(recs) |-> recs[q[i]]] :
      q \in Orders(recs, key, 1..Len(recs)) }

\* the field compared by the less function of the sort
ByTimestampUs == "TimestampUs"
ByFileOffset == "FileOffset"

\* lines 404-447: the records the loop reads, from the first magic found in
\* the region up to the first record whose magic is wrong; FrameSeq is
\* the place of the record in the region
ReadRecords(f) ==
  LET starts == { i \in 1..Len(f.disk) :
                    f.disk[i].magic = TRecFrameIndexMagic }
      idx    == CHOOSE i \in starts : \A j \in starts : i <= j
      good   == { j \in idx..Len(f.disk) :
                    \A k \in idx..j : f.disk[k].magic = TRecFrameIndexMagic }
      last   == CHOOSE j \in good : \A k \in good : k <= j
  IN IF starts = {} THEN <<>>
     ELSE [i \in 1..(last - idx + 1) |->
             [FrameType |-> f.disk[idx + i - 1].FrameType,
              Channel |-> f.disk[idx + i - 1].Channel,
              FrameSeq |-> idx + i - 1,
              FileOffset |-> f.disk[idx + i - 1].FileOffset,
              TimestampUs |-> f.disk[idx + i - 1].TimestampUs,
              UnixTs |-> f.disk[idx + i - 1].UnixTs]]

\* ParseTRecFrameIndex: what it can return for a container that opens
ParseTRecFrameIndex(f) ==
  SortedBy(SelectSeq(ReadRecords(f), KeepRecord), ByTimestampUs)

NoFile ==
  [exists |-> FALSE, small |-> FALSE, magic |-> "", version |-> 0,
   count |-> 0, hash |-> 0, body |-> <<>>]

\* uint32(n): the low 32 bits, taken as two 16-bit halves
Uint32(n) == (n % 65536) + 65536 * ((n \div 65536) % 65536)

\* CacheExists / VPSCacheExists
CacheExists(file) == file.exists /\ ~file.small

\* SaveMmapCache / SaveVPSCache: the cache file after the call
SaveCache(file, magic, version, hash, body) ==
  IF Len(body) = 0 THEN file
  ELSE [exists |-> TRUE, small |-> FALSE, magic |-> magic,
        version |-> version, count |-> Uint32(Len(body)),
        hash |-> hash, body |-> body]

\* LoadMmapCache: the error, "" when the file is accepted
LoadMmapCacheErr(file) ==
  IF ~file.exists THEN "open"
  ELSE IF file.small THEN "cache file too small"
  ELSE IF file.magic # "SIDX" THEN "invalid cache magic"
  ELSE IF file.version # CacheVersion THEN "cache version mismatch"
  ELSE IF Len(file.body) < file.count THEN "cache file truncated"
  ELSE ""

\* LoadMmapCache: the records of an accepted file
LoadMmapCache(file) == SubSeq(file.body, 1, file.count)

\* LoadVPSCache: the error, "" when the file is accepted
LoadVPSCacheErr(file, currentHash) ==
  IF ~file.exists THEN "stat"
  ELSE IF file.small THEN "vps cache too small"
  ELSE IF file.magic # "VPOS" THEN "invalid vps cache magic"
  ELSE IF file.version # VPSCacheVersion THEN "vps cache version mismatch"
  ELSE IF file.hash # currentHash THEN "vps cache hash mismatch"
  ELSE IF Len(file.body) < file.count THEN "vps cache truncated"
  ELSE ""

\* SaveVPSCache stores each position as a 32-bit word
PutUint32(positions) ==
  [i \in 1..Len(positions) |-> Uint32(positions[i])]

LoadVPSCache(file) == SubSeq(file.body, 1, file.count)

\* nothing built: what buildSegmentCache last returned is forgotten when
\* the container is parsed again or its cache is damaged
NotBuilt ==
  [done |-> FALSE, info |-> FALSE, FrameIndex |-> <<>>,
   VPSPositions |-> <<>>, AudioFrames |-> <<>>]

NotHanded == [by |-> "", err |-> "", records |-> <<>>, healed |-> FALSE]

\* ParseTRecFrameIndex called directly
ParseDirect ==
  /\ handed' \in
       IF ~rec.exists
         THEN {[NotHanded EXCEPT !.by = "direct", !.err = "open"]}
         ELSE { [NotHanded EXCEPT !.by = "direct", !.records = r] :
                  r \in ParseTRecFrameIndex(rec) }
  /\ built' = NotBuilt
  /\ UNCHANGED <<besidesFrames, rec, sidx, vpos, trip>>

\* ParseTRecFrameIndexWithCache that leaves a cache file it refused as it is
WithCacheNoReplace ==
  IF CacheExists(sidx) /\ LoadMmapCacheErr(sidx) = ""
    THEN { [out |-> [NotHanded EXCEPT !.by = "cache",
                                      !.records = LoadMmapCache(sidx)],
            file |-> sidx] }
    ELSE IF ~rec.exists
      THEN { [out |-> [NotHanded EXCEPT !.by = "parse", !.err = "open"],
              file |-> sidx] }
      ELSE { [out |-> [NotHanded EXCEPT !.by = "parse", !.records = r,
                                        !.healed = sidx.exists],
              file |-> IF sidx.exists THEN sidx
                       ELSE SaveCache(sidx, "SIDX", CacheVersion, rec.hash,
                                      r)] :
               r \in ParseTRecFrameIndex(rec) }

\* ParseTRecFrameIndexWithCache, lines 551-585: what can be handed out,
\* with the cache file afterwards. healed says that an existing cache file
\* was refused and the records come from the container
WithCache ==
  IF CacheExists(sidx) /\ LoadMmapCacheErr(sidx) = ""
    THEN { [out |-> [NotHanded EXCEPT !.by = "cache",
                                      !.records = LoadMmapCache(sidx)],
            file |-> sidx] }
    ELSE IF ~rec.exists
      THEN { [out |-> [NotHanded EXCEPT !.by = "parse", !.err = "open"],
              file |-> sidx] }
      ELSE { [out |-> [NotHanded EXCEPT !.by = "parse", !.records = r,
                                        !.healed = sidx.exists],
              file |-> SaveCache(sidx, "SIDX", CacheVersion, rec.hash, r)] :
               r \in ParseTRecFrameIndex(rec) }

ParseTRecFrameIndexWithCache ==
  /\ \E res \in WithCache : handed' = res.out /\ sidx' = res.file
  /\ built' = NotBuilt
  /\ UNCHANGED <<besidesFrames, rec, vpos, trip>>

\* the ways a cache file written by the program goes bad: cut below its
\* header, another magic, the version of an older build, cut in its records
Damaged(file) ==
  { [file EXCEPT !.small = TRUE, !.body = <<>>],
    [file EXCEPT !.magic = "XXXX"],
    [file EXCEPT !.version = 1],
    [file EXCEPT !.body = SubSeq(file.body, 1, Len(file.body) - 1)] }

\* the frame-index cache file is damaged on the disk
Corrupt ==
  /\ sidx.exists
  /\ LoadMmapCacheErr(sidx) = ""
  /\ sidx' \in Damaged(sidx)
  /\ handed' = NotHanded
  /\ built' = NotBuilt
  /\ UNCHANGED <<besidesFrames, rec, vpos, trip>>

\* the segment of the master index whose container this is
TheSegment ==
  [FileIndex |-> 0, Channel |-> 2, StartTime |-> MinValidTimestamp,
   EndTime |-> MinValidTimestamp + 60]

\* CalculatePreciseTime, lines 334-342: the product is formed in float64
\* and truncated; when the division is exact the rounding of the quotient
\* can leave the product just below the integer
CalculatePreciseTime(seg, byteOffset) ==
  LET duration == seg.EndTime - seg.StartTime
      exact == (byteOffset * duration) \div TRecIndexRegionStart
  IN { seg.StartTime + exact } \cup
     IF exact > 0 /\ (byteOffset * duration) % TRecIndexRegionStart = 0
       THEN { seg.StartTime + exact - 1 } ELSE {}

\* findAudioTimeForOffset, lines 1025-1040
findAudioTimeForOffset(audioFrames, targetOffset, seg) ==
  LET le == { i \in 1..Len(audioFrames) :
                \A j \in 1..i : j = 1 \/ audioFrames[j].FileOffset <= targetOffset }
      best == CHOOSE i \in le : \A j \in le : j <= i
  IN IF Len(audioFrames) = 0 THEN CalculatePreciseTime(seg, targetOffset)
     ELSE { audioFrames[best].UnixTs }

\* ScanVPSPositionsWithCache: the positions and the cache file afterwards
ScanVPSPositionsWithCache ==
  IF CacheExists(vpos) /\ LoadVPSCacheErr(vpos, rec.hash) = ""
    THEN [positions |-> LoadVPSCache(vpos), file |-> vpos]
    ELSE [positions |-> rec.vps,
          file |-> SaveCache(vpos, "VPOS", VPSCacheVersion, rec.hash,
                             PutUint32(rec.vps))]

\* lines 993-1003: the VPS positions with the times found for them
WithTimes(positions, audioFrames) ==
  LET timesOf(i) == findAudioTimeForOffset(audioFrames, positions[i],
                                           TheSegment)
  IN { [i \in 1..Len(positions) |->
          [Offset |-> positions[i], Time |-> t[i]]] :
       t \in { u \in [1..Len(positions) ->
                        UNION { timesOf(i) : i \in 1..Len(positions) }] :
                 \A i \in 1..Len(positions) : u[i] \in timesOf(i) } }

\* buildSegmentCache, lines 957-1023: info is FALSE for a nil result
buildSegmentCache ==
  /\ IF ~rec.exists
       THEN /\ built' = [NotBuilt EXCEPT !.done = TRUE]
            /\ UNCHANGED <<handed, sidx, vpos>>
       ELSE \E res \in WithCache :
              /\ handed' = res.out
              /\ sidx' = res.file
              /\ IF res.out.err # "" \/ Len(res.out.records) = 0
                   THEN /\ built' = [NotBuilt EXCEPT !.done = TRUE]
                        /\ vpos' = vpos
                   ELSE \E audioFrames \in
                            SortedBy(SelectSeq(res.out.records,
                                       LAMBDA f : f.Channel = ChannelAudio),
                                     ByFileOffset) :
                        LET scan == ScanVPSPositionsWithCache
                        IN /\ vpos' = scan.file
                           /\ \E vpsPositions \in
                                  WithTimes(scan.positions, audioFrames) :
                                built' = [done |-> TRUE, info |-> TRUE,
                                          FrameIndex |-> res.out.records,
                                          VPSPositions |-> vpsPositions,
                                          AudioFrames |-> audioFrames]
  /\ UNCHANGED <<besidesFrames, rec, trip>>

NoTrip == [kind |-> "", wrote |-> <<>>, err |-> "", read |-> <<>>]

\* the vectors of frame-index records given to SaveMmapCache
RecordVectors ==
  UNION { [1..n -> { [FrameType |-> DiskKinds[k].FrameType,
                      Channel |-> DiskKinds[k].Channel, FrameSeq |-> k,
                      FileOffset |-> DiskKinds[k].FileOffset,
                      TimestampUs |-> DiskKinds[k].TimestampUs,
                      UnixTs |-> DiskKinds[k].UnixTs] : k \in 1..3 }] :
            n \in 0..MaxDisk }

\* SaveMmapCache of a vector, then LoadMmapCache, the container unchanged
SaveLoadMmapCache ==
  /\ rec.exists
  /\ \E records \in RecordVectors :
       LET file == SaveCache(sidx, "SIDX", CacheVersion, rec.hash, records)
       IN /\ sidx' = file
          /\ trip' = [kind |-> "SIDX", wrote |-> records,
                      err |-> LoadMmapCacheErr(file),
                      read |-> IF LoadMmapCacheErr(file) = ""
                                 THEN LoadMmapCache(file) ELSE <<>>]
  /\ UNCHANGED <<besidesFrames, rec, vpos, handed, built>>

\* SaveVPSCache of a vector, then LoadVPSCache, the container unchanged
SaveLoadVPSCache ==
  /\ rec.exists
  /\ \E positions \in VPSLists :
       LET file == SaveCache(vpos, "VPOS", VPSCacheVersion, rec.hash,
                             PutUint32(positions))
       IN /\ vpos' = file
          /\ trip' = [kind |-> "VPOS", wrote |-> positions,
                      err |-> LoadVPSCacheErr(file, rec.hash),
                      read |-> IF LoadVPSCacheErr(file, rec.hash) = ""
                                 THEN LoadVPSCache(file) ELSE <<>>]
  /\ UNCHANGED <<besidesFrames, rec, sidx, handed, built>>

\* no container
FramesIdle ==
  /\ rec = MissingRec
  /\ sidx = NoFile
  /\ vpos = NoFile
  /\ handed = NotHanded
  /\ built = NotBuilt
  /\ trip = NoTrip

(* ---------------- POST /api/v1/config ---------------- *)
maxPathHistory == 10

\* the storage paths a request can name, the requests that name a path
\* named before, and the changes made to the disk between requests
MaxPaths == 12
MaxRepeats == 1
MaxAlter == 1

\* the empty storagePath of a request
NoPath == 0
Paths == 1..MaxPaths

\* a path on the disk: whether Load succeeds there, the entries of its
\* index and the TRec files the glob finds
Volumes == [ok : BOOLEAN, entries : 0..1, files : 0..1]
PlainVolume == [ok |-> TRUE, entries |-> 0, files |-> 0]

\* the requests with a timezone made so far
MaxZoned == 3

\* the names time.LoadLocation knows, and one it does not
Locations == {"Asia/Shanghai", "UTC"}
NoLocation == "Mars/Phobos"

NewDVRServer(path) ==
  [dvrPath |-> path, loaded |-> FALSE, entries |-> 0,
   timezone |-> "Asia/Shanghai"]

\* DVRServer.Load on a fresh server for the path
LoadedDVR(path) ==
  [NewDVRServer(path) EXCEPT !.loaded = TRUE,
                             !.entries = volumes[path].entries]

\* DVRServer.SetTimezone: the server afterwards; a name that does not load
\* is an error and leaves it as it is
SetTimezone(d, tz) ==
  IF tz \in Locations THEN [d EXCEPT !.timezone = tz] ELSE d

\* entryCount of the loaded storage, fileCount of the glob at the call
computeDVRHash(d) ==
  IF d.loaded THEN <<d.entries, volumes[d.dvrPath].files>> ELSE <<0, 0>>

addToPathHistory(history, path) ==
  LET newHistory == SelectSeq(history, LAMBDA q : q # path)
      all == <<path>> \o newHistory
  IN IF Len(all) > maxPathHistory THEN SubSeq(all, 1, maxPathHistory) ELSE all

\* h.dvrCache[path] = entry and delete(h.dvrCache, path)
MapPut(m, path, entry) ==
  [q \in DOMAIN m \cup {path} |-> IF q = path THEN entry ELSE m[q]]

MapDelete(m, path) == [q \in DOMAIN m \ {path} |-> m[q]]

NoConfig ==
  [code |-> 0, storagePath |-> NoPath, loaded |-> FALSE, fromCache |-> FALSE,
   building |-> FALSE, last |-> NoPath, before |-> NewDVRServer(NoPath),
   timezone |-> "", posted |-> ""]

\* lines 130-139: the active server is put into the map when it is loaded
\* and the request names another path
SavedCache(d, path) ==
  IF d.loaded /\ d.dvrPath # NoPath /\ d.dvrPath # path
  THEN MapPut(dvrCache, d.dvrPath, [dvr |-> d, hash |-> computeDVRHash(d)])
  ELSE dvrCache

\* the handler for a request with the path and the timezone, either of
\* which may be empty. config.timezone is the timezone of the answer and
\* config.posted the timezone of the last request with one that was
\* answered with 200
SetConfigRequest(path, tz) ==
  LET now == IF tz = "" THEN dvr ELSE SetTimezone(dvr, tz)
      posted == IF tz = "" THEN config.posted ELSE tz
  IN IF tz # "" /\ tz \notin Locations
     THEN /\ config' = [config EXCEPT !.code = 400,
                                       !.storagePath = NoPath,
                                       !.loaded = FALSE,
                                       !.fromCache = FALSE,
                                       !.building = FALSE,
                                       !.timezone = ""]
          /\ UNCHANGED <<dvr, dvrCache, pathHistory>>
     ELSE IF path = NoPath
       THEN /\ config' = [config EXCEPT !.code = 200,
                                         !.storagePath = now.dvrPath,
                                         !.loaded = now.loaded,
                                         !.fromCache = FALSE,
                                         !.building = FALSE,
                                         !.timezone = now.timezone,
                                         !.posted = posted]
            /\ dvr' = now
            /\ UNCHANGED <<dvrCache, pathHistory>>
       ELSE LET saved == SavedCache(now, path)
                temp == LoadedDVR(path)
                hit == /\ path \in DOMAIN saved
                       /\ computeDVRHash(temp) = saved[path].hash
                newDvr == IF hit THEN saved[path].dvr ELSE temp
            IN IF ~volumes[path].ok
               THEN /\ dvrCache' = saved
                    /\ config' = [config EXCEPT !.code = 400,
                                                 !.storagePath = path,
                                                 !.loaded = FALSE,
                                                 !.fromCache = FALSE,
                                                 !.building = FALSE,
                                                 !.timezone = ""]
                    /\ dvr' = now
                    /\ UNCHANGED pathHistory
               ELSE /\ dvrCache' = IF hit THEN MapDelete(saved, path) ELSE saved
                    /\ dvr' = newDvr
                    /\ pathHistory' = addToPathHistory(pathHistory, path)
                    /\ config' = [code |-> 200, storagePath |-> path,
                                  loaded |-> TRUE, fromCache |-> hit,
                                  building |-> ~hit, last |-> path,
                                  before |-> now,
                                  timezone |-> now.timezone,
                                  posted |-> posted]

\* a request without a timezone; a path not named before is the next one
SetConfig ==
  \E path \in {NoPath} \cup Paths :
    /\ \/ path = NoPath
       \/ path = asked.seen + 1
       \/ path \in 1..asked.seen /\ asked.repeats < MaxRepeats
    /\ asked' = IF path = NoPath THEN asked
                ELSE IF path > asked.seen THEN [asked EXCEPT !.seen = path]
                ELSE [asked EXCEPT !.repeats = @ + 1]
    /\ SetConfigRequest(path, "")
    /\ UNCHANGED <<volumes, besidesService, mmapVars, interpVars>>

\* a request that may carry a timezone, for the path named last, a path
\* named before or the next one
SetConfigZoned ==
  \E path \in {NoPath} \cup Paths, tz \in {"", "UTC", NoLocation} :
    /\ asked.zoned < MaxZoned
    /\ path \in {NoPath} \cup (1..(asked.seen + 1))
    /\ asked' = [asked EXCEPT
                   !.seen = IF path > @ THEN path ELSE @,
                   !.zoned = @ + 1]
    /\ SetConfigRequest(path, tz)
    /\ UNCHANGED <<volumes, besidesService, mmapVars, interpVars>>

\* between two requests the files at a path change: the index goes or
\* comes back, gets another entry count, or a TRec file is added or removed
Alter ==
  \E path \in 1..asked.seen, v \in Volumes :
    /\ asked.alters < MaxAlter
    /\ Cardinality({f \in DOMAIN v : v[f] # volumes[path][f]}) = 1
    /\ volumes' = [volumes EXCEPT ![path] = v]
    /\ asked' = [asked EXCEPT !.alters = @ + 1]
    /\ UNCHANGED <<dvr, dvrCache, pathHistory, config, besidesService, mmapVars, interpVars>>

\* the server main made for the path of the command line
ConfigIdle ==
  /\ dvr = NewDVRServer(1)
  /\ dvrCache = <<>>
  /\ pathHistory = <<>>
  /\ volumes = [q \in Paths |-> PlainVolume]
  /\ config = NoConfig
  /\ asked = [seen |-> 1, repeats |-> 0, alters |-> 0, zoned |-> 0]

(* ---------------- GlobalMmapManager ---------------- *)
\* the goroutines calling GetOrLoad and the calls of Close
MaxGetters == 2
MaxCloses == 1

Getters == 1..MaxGetters

\* the container paths the callers name
Containers == {1, 2}

\* what a caller holds: the records of the mapping with that number, the
\* records in memory (InMemory) or an error
InMemory == 0
Failed == -1
NoGetter ==
  [pc |-> "idle", path |-> 0, got |-> Failed, locked |-> FALSE]

\* lines 609-615: under the read lock, return the records of the stored
\* mapping or go on to the write lock
GetOrLoad(g) ==
  \E path \in Containers :
    /\ getters[g].pc = "idle"
    /\ getters' = [getters EXCEPT ![g] =
         IF path \in DOMAIN caches
         THEN [pc |-> "idle", path |-> path, got |-> caches[path],
               locked |-> FALSE]
         ELSE [pc |-> "lock", path |-> path, got |-> Failed,
               locked |-> FALSE]]
    /\ UNCHANGED <<caches, mmaps, closes, besidesService, configVars, interpVars>>

DoubleCheckSkipped(path) == FALSE

\* lines 621-624
DoubleCheck(path) == path \in DOMAIN caches

\* lines 618-657, all under the write lock: the double check, then the
\* cache file or the container is read; a mapping that was made is stored,
\* records with no mapping are returned as they are, and the parse may fail
GetOrLoadLocked(g) ==
  LET path == getters[g].path
      id == Cardinality(mmaps) + 1
  IN /\ getters[g].pc = "lock"
     /\ IF DoubleCheck(path)
        THEN /\ getters' = [getters EXCEPT ![g] =
                  [pc |-> "idle", path |-> path, got |-> caches[path],
                   locked |-> TRUE]]
             /\ UNCHANGED <<caches, mmaps>>
        ELSE \/ /\ caches' = MapPut(caches, path, id)
                /\ mmaps' = mmaps \cup
                     {[id |-> id, path |-> path, live |-> TRUE]}
                /\ getters' = [getters EXCEPT ![g] =
                     [pc |-> "idle", path |-> path, got |-> id,
                      locked |-> TRUE]]
             \/ /\ \E out \in {InMemory, Failed} :
                     getters' = [getters EXCEPT ![g] =
                       [pc |-> "idle", path |-> path, got |-> out,
                        locked |-> TRUE]]
                /\ UNCHANGED <<caches, mmaps>>
     /\ UNCHANGED <<closes, besidesService, configVars, interpVars>>

\* the mappings not yet unmapped
Live == {m \in mmaps : m.live}

\* lines 660-667, under the write lock: the mappings in the map are
\* unmapped and the map is made anew
Close ==
  /\ closes < MaxCloses
  /\ closes' = closes + 1
  /\ mmaps' = {IF m.path \in DOMAIN caches /\ caches[m.path] = m.id
               THEN [m EXCEPT !.live = FALSE] ELSE m : m \in mmaps}
  /\ caches' = <<>>
  /\ UNCHANGED <<getters, besidesService, configVars, interpVars>>

MmapIdle ==
  /\ caches = <<>>
  /\ mmaps = {}
  /\ getters = [g \in Getters |-> NoGetter]
  /\ closes = 0

(* ---------------- CalculatePreciseTimeFromIFrames ---------------- *)
\* the most positions in a list
MaxAnchors == 3

\* the byte offsets and the times of the positions, and the offsets asked
AnchorOffsets == {10, 13, 20}
AnchorTimes == {TheSegment.StartTime, TheSegment.StartTime + 7, TheSegment.EndTime}
TargetOffsets == {0, 5, 10, 12, 13, 15, 20, 33, 30000020}

VPSPositions == [Offset : AnchorOffsets, Time : AnchorTimes]

RECURSIVE ListsOf(_, _)
ListsOf(S, n) ==
  IF n = 0 THEN {<<>>}
  ELSE LET shorter == ListsOf(S, n - 1)
       IN shorter \cup {Append(l, x) : l \in {m \in shorter : Len(m) = n - 1}, x \in S}

IFrameLists == ListsOf(VPSPositions, MaxAnchors)

\* a nil *VPSPosition
NilFrame == [Offset |-> -1, Time |-> -1]

\* int64(float64(a) / float64(b) * float64(c)) for a >= 0, b > 0: the
\* conversion truncates toward zero, and a quotient that was rounded can
\* leave a product that is whole in the integers just short of it
TruncatedProduct(a, b, c) ==
  LET size == a * (IF c < 0 THEN -c ELSE c)
      whole == size \div b
      sizes == {whole} \cup
               IF whole > 0 /\ size % b = 0 /\ a % b # 0 THEN {whole - 1} ELSE {}
  IN {IF c < 0 THEN -x ELSE x : x \in sizes}

\* the whole index region taken for the two neighbours
ScanWholeRegion(iFrames, i, prevFrame, nextFrame, targetOffset, seg) ==
  <<[Offset |-> 0, Time |-> seg.StartTime],
    [Offset |-> TRecIndexRegionStart, Time |-> seg.EndTime]>>

\* lines 356-369: the loop over the positions from the i-th on, giving
\* prevFrame and nextFrame
RECURSIVE ScanIFrames(_, _, _, _, _, _)
ScanIFrames(iFrames, i, prevFrame, nextFrame, targetOffset, seg) ==
  IF i > Len(iFrames) THEN <<prevFrame, nextFrame>>
  ELSE IF iFrames[i].Offset <= targetOffset
       THEN ScanIFrames(iFrames, i + 1, iFrames[i],
                        IF i + 1 <= Len(iFrames) THEN iFrames[i + 1]
                        ELSE nextFrame,
                        targetOffset, seg)
       ELSE IF prevFrame = NilFrame
            THEN <<[Offset |-> 0, Time |-> seg.StartTime], iFrames[i]>>
            ELSE <<prevFrame, nextFrame>>

\* lines 345-389: the times the call can return
CalculatePreciseTimeFromIFrames(iFrames, targetOffset, seg) ==
  IF Len(iFrames) = 0 THEN {seg.StartTime}
  ELSE IF Len(iFrames) = 1 THEN CalculatePreciseTime(seg, targetOffset)
  ELSE LET found == ScanIFrames(iFrames, 1, NilFrame, NilFrame, targetOffset, seg)
           prevFrame == found[1]
           nextFrame == IF found[2] = NilFrame
                        THEN [Offset |-> TRecIndexRegionStart, Time |-> seg.EndTime]
                        ELSE found[2]
           byteRange == nextFrame.Offset - prevFrame.Offset
           timeRange == nextFrame.Time - prevFrame.Time
           byteOffsetInRange == targetOffset - prevFrame.Offset
       IN IF prevFrame = NilFrame THEN {seg.StartTime}
          ELSE IF byteRange <= 0 THEN {prevFrame.Time}
          ELSE {prevFrame.Time + d :
                  d \in TruncatedProduct(byteOffsetInRange, byteRange, timeRange)}

NoInterp == [iFrames |-> <<>>, called |-> FALSE, targetOffset |-> 0, time |-> 0]

Interpolate ==
  \E targetOffset \in TargetOffsets :
    \E time \in CalculatePreciseTimeFromIFrames(interp.iFrames, targetOffset,
                                                TheSegment) :
      /\ interp' = [interp EXCEPT !.called = TRUE,
                                  !.targetOffset = targetOffset,
                                  !.time = time]
      /\ UNCHANGED <<besidesService, configVars, mmapVars>>

InterpIdle == interp = NoInterp

ServiceIdle == ConfigIdle /\ MmapIdle /\ InterpIdle

(* ---------------- ScanVPSPositions ---------------- *)
\* 00 00 00 01 40
VPSPattern == <<0, 0, 0, 1, 64>>

\* the 4 MiB of a chunk and the 0x0F900000 bytes of the data region, both
\* scaled down: the region is a whole number of chunks and a part of one,
\* as 62 and a quarter in the program
chunkSize == 8
scanSize == 20

\* the longest file, and the most places of it where the pattern is put
MaxFile == 22
MaxPatterns == 2

\* the files: filler bytes with the pattern written at some places, the
\* last one cut off where the file ends
FileWith(len, places) ==
  [i \in 1..len |->
     IF \E q \in places : q < i /\ i <= q + 5
     THEN LET q == CHOOSE r \in places :
                     /\ r < i /\ i <= r + 5
                     /\ \A t \in places : (t < i /\ i <= t + 5) => t <= r
          IN VPSPattern[i - q]
     ELSE 255]

ScanFiles ==
  {FileWith(len, places) :
     len \in 0..MaxFile,
     places \in {P \in SUBSET (0..(MaxFile - 1)) : Cardinality(P) <= MaxPatterns}}

\* the pattern stands in the bytes at offset at (counted from 0)
PatternAt(bytes, at) ==
  /\ at + 5 <= Len(bytes)
  /\ \A j \in 1..5 : bytes[at + j] = VPSPattern[j]

\* f.Read into chunk[:want] at the offset: the bytes read replace the
\* first bytes of the buffer, the others stay as they were
ReadInto(chunk, file, offset, want) ==
  LET n == IF offset >= Len(file) THEN 0
           ELSE IF offset + want > Len(file) THEN Len(file) - offset
           ELSE want
  IN [n |-> n,
      chunk |-> [i \in 1..Len(chunk) |->
                   IF i <= n THEN file[offset + i] ELSE chunk[i]]]

RECURSIVE Ascending(_)
Ascending(S) ==
  IF S = {} THEN <<>>
  ELSE LET least == CHOOSE x \in S : \A y \in S : x <= y
       IN <<least>> \o Ascending(S \ {least})

\* lines 516-526: bytes.Index over chunk[pos:searchEnd+4], then on from
\* one past the match, finds the matches beginning before searchEnd
ChunkMatches(chunk, searchEnd) ==
  {at \in 0..(searchEnd - 1) : PatternAt(SubSeq(chunk, 1, searchEnd + 4), at)}

\* lines 489-529: the loop over the chunks from offset on
RECURSIVE ScanFrom(_, _, _, _)
ScanFrom(file, offset, chunk, vpsPositions) ==
  IF offset >= scanSize THEN vpsPositions
  ELSE LET readSize == IF offset + chunkSize > scanSize
                       THEN scanSize - offset ELSE chunkSize
           extraRead == IF offset + readSize + 4 > scanSize THEN 0 ELSE 4
           got == ReadInto(chunk, file, offset, readSize + extraRead)
           searchEnd == IF extraRead > 0 THEN readSize ELSE got.n
           found == {offset + at : at \in ChunkMatches(got.chunk, searchEnd)}
       IN IF got.n = 0 THEN vpsPositions
          ELSE ScanFrom(file, offset + readSize, got.chunk,
                        vpsPositions \o
                          Ascending({a \in found : a < scanSize}))

\* lines 474-532 for a file that opens: make gives a buffer of zeros
ScanVPSPositions(file) ==
  ScanFrom(file, 0, [i \in 1..(chunkSize + 4) |-> 0], <<>>)

NoScan == [file |-> <<>>, done |-> FALSE, positions |-> <<>>]

ScanFile ==
  /\ ~scanned.done
  /\ scanned' = [scanned EXCEPT !.done = TRUE,
                          !.positions = ScanVPSPositions(scanned.file)]
  /\ UNCHANGED besidesScanned

(* ---------------- the target offset of a play or seek ---------------- *)
\* the most audio records of a segment
MaxAudio == 3

\* the audio records: file offsets and seconds, and the times sought
AudioOffsets == {0, 45, 65}
AudioTimes == {12, 13, 14}
SoughtTimes == {5, 12, 13, 14, 20}

\* CachedSegmentInfo.AudioFrames: buildSegmentCache sorts them by file
\* offset (README.md lines 981-983)
AudioLists ==
  {l \in ListsOf([FileOffset : AudioOffsets, UnixTs : AudioTimes], MaxAudio) :
     \A i \in 1..(Len(l) - 1) : l[i].FileOffset < l[i + 1].FileOffset}

NoSought == [audio |-> <<>>, done |-> FALSE, startTimestamp |-> 0,
             targetOffset |-> 0]

\* lines 203-215 of streamVideoWithAudio
FindTargetOffset ==
  \E startTimestamp \in SoughtTimes :
    /\ sought' = [sought EXCEPT
                    !.done = TRUE,
                    !.startTimestamp = startTimestamp,
                    !.targetOffset = TargetOffset(sought.audio, startTimestamp)]
    /\ UNCHANGED besidesSought

(* ---------------- VideoStreamReader on the bytes of a file ---------------- *)
NalStartCode4 == <<0, 0, 0, 1>>
NalStartCode3 == <<0, 0, 1>>

\* the 64 KiB of a read and the 256 KiB of minBufferSize, scaled down
streamChunkSize == 8
minBufferSize == 16
maxAttempts == 10

\* the most NALs of a file and the most calls of ReadNextNals on it
MaxNals == 3
MaxReads == 6

RECURSIVE Filler(_)
Filler(n) == IF n = 0 THEN <<>> ELSE <<2>> \o Filler(n - 1)

\* the files: bytes without a start code, then NALs, each a start code and
\* a payload (byte 2 gives NAL type 1)
NalPieces ==
  {code \o Filler(n) : code \in {NalStartCode3, NalStartCode4}, n \in {1, 3, 14}}

RECURSIVE Joined(_)
Joined(l) == IF l = <<>> THEN <<>> ELSE Head(l) \o Joined(Tail(l))

StreamFiles ==
  {Filler(n) \o Joined(l) : n \in {0, 2, 7, 88}, l \in ListsOf(NalPieces, MaxNals)}

\* the length of the start code at pos of the data (counted from 0), 0
\* when there is none
StartLen(data, pos) ==
  IF pos + 4 <= Len(data) /\ SubSeq(data, pos + 1, pos + 4) = NalStartCode4 THEN 4
  ELSE IF pos + 3 <= Len(data) /\ SubSeq(data, pos + 1, pos + 3) = NalStartCode3 THEN 3
  ELSE 0

\* lines 234-245 of ParseNalUnits: the next start code from nextPos on
\* that begins before the last four bytes, else the end of the data
NextStart(data, nextPos) ==
  LET found == {q \in nextPos..(Len(data) - 5) : StartLen(data, q) # 0}
  IN IF found = {} THEN Len(data)
     ELSE CHOOSE q \in found : \A t \in found : q <= t

\* ParseNalUnits, lines 213-259, from pos on
RECURSIVE ParseFrom(_, _, _)
ParseFrom(data, pos, results) ==
  IF pos >= Len(data) - 4 THEN results
  ELSE LET startLen == StartLen(data, pos)
           nextPos == NextStart(data, pos + startLen)
       IN IF startLen = 0 THEN ParseFrom(data, pos + 1, results)
          ELSE IF pos + startLen >= Len(data) THEN results
          ELSE ParseFrom(data, nextPos,
                 Append(results,
                        [Offset |-> pos, Size |-> nextPos - pos,
                         NalType |-> (data[pos + startLen + 1] \div 2) % 64]))

ParseNalUnits(data) == ParseFrom(data, 0, <<>>)

StripStartCode(data) ==
  IF Len(data) >= 4 /\ SubSeq(data, 1, 4) = NalStartCode4
    THEN SubSeq(data, 5, Len(data))
  ELSE IF Len(data) >= 3 /\ SubSeq(data, 1, 3) = NalStartCode3
    THEN SubSeq(data, 4, Len(data))
  ELSE data

\* f.Seek(pos), f.Read(chunk) with a chunk of want bytes
ReadAt(file, pos, want) ==
  IF pos >= Len(file) THEN <<>>
  ELSE SubSeq(file, pos + 1, IF pos + want > Len(file) THEN Len(file) ELSE pos + want)

NewVideoStreamReader(startPos) ==
  [streamPos |-> startPos, buffer |-> <<>>, bufferStartPos |-> startPos]

\* a fill that leaves bufferStartPos as it is
fillBufferNoRebase(r, file) ==
  LET chunk == ReadAt(file, r.streamPos, streamChunkSize)
  IN IF Len(r.buffer) >= minBufferSize THEN [ok |-> TRUE, r |-> r]
     ELSE IF Len(chunk) = 0 THEN [ok |-> FALSE, r |-> r]
     ELSE [ok |-> TRUE,
           r |-> [r EXCEPT !.streamPos = @ + Len(chunk),
                           !.buffer = @ \o chunk]]

\* fillBuffer, lines 646-665
fillBuffer(r, file) ==
  LET chunk == ReadAt(file, r.streamPos, streamChunkSize)
  IN IF Len(r.buffer) >= minBufferSize THEN [ok |-> TRUE, r |-> r]
     ELSE IF Len(chunk) = 0 THEN [ok |-> FALSE, r |-> r]
     ELSE [ok |-> TRUE,
           r |-> [streamPos |-> r.streamPos + Len(chunk),
                  buffer |-> r.buffer \o chunk,
                  bufferStartPos |-> IF Len(r.buffer) = 0 THEN r.streamPos
                                     ELSE r.bufferStartPos]]

\* lines 694-720: all units but the last one, as results
ResultsOf(r, nalUnits) ==
  [i \in 1..(Len(nalUnits) - 1) |->
     [Data |-> StripStartCode(SubSeq(r.buffer, nalUnits[i].Offset + 1,
                                     nalUnits[i].Offset + nalUnits[i].Size)),
      NalType |-> nalUnits[i].NalType,
      FileOffset |-> r.bufferStartPos + nalUnits[i].Offset]]

\* ReadNextNals, lines 685-746, from the given attempt on: the reader
\* afterwards and the batch, empty for nil
RECURSIVE ReadAttempts(_, _, _)
ReadAttempts(r, file, attempt) ==
  IF attempt >= maxAttempts THEN [r |-> r, results |-> <<>>]
  ELSE LET filled == fillBuffer(r, file)
           q == filled.r
           nalUnits == ParseNalUnits(q.buffer)
           lastNalEnd == nalUnits[Len(nalUnits) - 1].Offset
                           + nalUnits[Len(nalUnits) - 1].Size
           more == ReadAt(file, q.streamPos, streamChunkSize * 4)
       IN IF ~filled.ok THEN [r |-> q, results |-> <<>>]
          ELSE IF Len(nalUnits) >= 2
            THEN [r |-> [q EXCEPT !.bufferStartPos = @ + lastNalEnd,
                                  !.buffer = SubSeq(@, lastNalEnd + 1, Len(@))],
                  results |-> ResultsOf(q, nalUnits)]
          ELSE IF Len(nalUnits) = 0
            THEN ReadAttempts([q EXCEPT !.buffer = <<>>], file, attempt + 1)
          ELSE IF Len(more) = 0 THEN [r |-> q, results |-> <<>>]
          ELSE ReadAttempts([q EXCEPT !.buffer = @ \o more,
                                      !.streamPos = @ + Len(more)],
                            file, attempt + 1)

NoStream ==
  [file |-> <<>>, r |-> NewVideoStreamReader(0), out |-> <<>>, calls |-> 0,
   ended |-> FALSE, last |-> <<>>]

\* one call of ReadNextNals by the streaming loop
ReadBatch ==
  LET got == ReadAttempts(vsr.r, vsr.file, 0)
  IN /\ vsr.calls < MaxReads
     /\ vsr' = [vsr EXCEPT !.r = got.r,
                           !.out = @ \o got.results,
                           !.last = got.results,
                           !.calls = @ + 1,
                           !.ended = @ \/ got.results = <<>>]
     /\ UNCHANGED besidesVsr

(* ---------------- the session with a stop channel ---------------- *)
\* internal/server/websocket.go: the StreamSession that has the fields
\* stopChan and running.  Channels are numbered as they are made.
MaxMessages == 3

MaxSent == 1

\* the session made by HandleWebSocket, lines 52-56, and the reader loop
\* before its first ReadMessage
NoSession ==
  [at |-> "read", action |-> "none", audio |-> FALSE, paused |-> FALSE,
   messages |-> 0, stopChan |-> 1, closed |-> {}, running |-> FALSE,
   g |-> <<>>]

\* lines 62-76 and 106-108: a message is read; an unparsable one is answered
\* and the loop continues, "speed" is logged, a failed read leaves the loop
\* for the stop() of line 111
ChanRead ==
  /\ ss.at = "read"
  /\ ss.messages < MaxMessages
  /\ \E action \in {"play", "pause", "seek", "speed", "invalid", "close"},
        audio \in BOOLEAN :
       /\ action \notin {"play", "seek"} => ~audio
       /\ ss' = [ss EXCEPT
                   !.at = IF action \in {"speed", "invalid"} THEN "read"
                          ELSE "stop",
                   !.action = action,
                   !.audio = audio,
                   !.paused = @ /\ action \notin {"play", "seek"},
                   !.messages = @ + 1]
  /\ UNCHANGED besidesSs

\* stop(), lines 115-123, under s.mu
stop(s) ==
  IF s.running
  THEN [s EXCEPT !.closed = @ \cup {s.stopChan},
                 !.stopChan = @ + 1,
                 !.running = FALSE]
  ELSE s

\* lines 78, 91, 95 and 111: the stop() of the command being handled
ChanStop ==
  /\ ss.at = "stop"
  /\ ss' = [stop(ss) EXCEPT
              !.at = CASE ss.action \in {"play", "seek"} -> "go"
                       [] ss.action = "pause" -> "read"
                       [] OTHER -> "closed",
              !.paused = ss.action = "pause"]
  /\ UNCHANGED besidesSs

\* lines 82-86 and 99-103: the go statement; the goroutine has not run yet
ChanGo ==
  /\ ss.at = "go"
  /\ ss' = [ss EXCEPT
              !.at = "read",
              !.g = Append(@, [pc |-> "spawned", stopChan |-> 0,
                               audio |-> ss.audio, sent |-> 0])]
  /\ UNCHANGED besidesSs

\* lines 139-142 of streamVideo and 257-260 of streamVideoWithAudio
streamVideoEnter(i) ==
  /\ ss.g[i].pc = "spawned"
  /\ ss' = [ss EXCEPT !.running = TRUE,
                      !.g[i].pc = "loop",
                      !.g[i].stopChan = ss.stopChan]
  /\ UNCHANGED besidesSs

\* one round of the loop that takes the ticker's case of the select and
\* sends the frame; select may take it also when stopChan is closed
streamVideoSend(i) ==
  /\ ss.g[i].pc = "loop"
  /\ ss.g[i].sent < MaxSent
  /\ ss' = [ss EXCEPT !.g[i].sent = @ + 1]
  /\ UNCHANGED besidesSs

\* the goroutine returns: on an error before the loop, on the stopChan case
\* of the select, or after the last frame; the deferred function of lines
\* 144-148 and 262-266 clears running
streamVideoReturn(i) ==
  /\ ss.g[i].pc = "loop"
  /\ ss' = [ss EXCEPT !.running = FALSE, !.g[i].pc = "exited"]
  /\ UNCHANGED besidesSs

(* ---------------- recording dates and recordings of a day ---------------- *)
\* the cached segments the listings are made from
MaxCached == 2

\* 24 * time.Hour, in seconds
SecondsPerDay == 86400

\* the offset of the location from UTC, in seconds; neither location has a
\* daylight saving time
UTCOffset(tz) == IF tz = "UTC" THEN 0 ELSE 28800

\* time.Unix(t, 0).In(loc).Format("2006-01-02"): the local date, as the
\* number of days since 1970-01-01
LocalDate(t, tz) == (t + UTCOffset(tz)) \div SecondsPerDay

\* time.ParseInLocation("2006-01-02", date, loc).Unix(): the local midnight
\* at which the date begins
ParseInLocation(date, tz) == date * SecondsPerDay - UTCOffset(tz)

\* times of segments: around the midnights of 2020-01-02 and 2020-01-03 in
\* either location
SegmentTimes ==
  {MinValidTimestamp + d : d \in {3600, 57600, 57610, 86400, 86410, 144000}}

\* segments as Load keeps them: the end after the start
KeptSegments ==
  {seg \in [Channel : {1, 2}, StartTime : SegmentTimes,
            EndTime : SegmentTimes] : seg.StartTime < seg.EndTime}

CachedLists == ListsOf(KeptSegments, MaxCached)

\* the dates a request can name
DatesAsked ==
  LET first == MinValidTimestamp \div SecondsPerDay
  IN (first - 1)..(first + 2)

\* the channel of a request without one
NoChannel == 0

NoListing ==
  [segments |-> <<>>, timezone |-> "Asia/Shanghai", channel |-> NoChannel,
   dates |-> {}, datesDone |-> FALSE,
   date |-> 0, recordings |-> <<>>, recordingsDone |-> FALSE]

\* lines 132-141 and 179-181: the segments that pass the channel filter
OfChannel(segments, channel) ==
  SelectSeq(segments, LAMBDA seg : channel = NoChannel \/ seg.Channel = channel)

\* DVRServer.GetRecordingDates on a loaded server
RecordingDates(segments, tz, channel) ==
  LET filtered == OfChannel(segments, channel)
  IN UNION {{LocalDate(filtered[i].StartTime, tz),
             LocalDate(filtered[i].EndTime, tz)} : i \in 1..Len(filtered)}

\* lines 171-201 of DVRServer.GetRecordings: the recordings before the sort
RecordingsFound(segments, date, tz, channel) ==
  LET startTs == ParseInLocation(date, tz)
      endTs == startTs + SecondsPerDay
      filtered == OfChannel(segments, channel)
      hits == SelectSeq(filtered, LAMBDA seg :
                          seg.StartTime < endTs /\ seg.EndTime > startTs)
  IN [i \in 1..Len(hits) |->
        LET actualStart == IF hits[i].StartTime > startTs
                           THEN hits[i].StartTime ELSE startTs
            actualEnd == IF hits[i].EndTime < endTs
                         THEN hits[i].EndTime ELSE endTs
        IN [Channel |-> hits[i].Channel,
            StartTimestamp |-> actualStart,
            EndTimestamp |-> actualEnd,
            Duration |-> actualEnd - actualStart]]

ByStartTimestamp == "StartTimestamp"

GetRecordingDates ==
  /\ listed' = [listed EXCEPT
                  !.dates = RecordingDates(listed.segments, listed.timezone,
                                           listed.channel),
                  !.datesDone = TRUE]
  /\ UNCHANGED besidesListed

\* DVRServer.GetRecordings on a loaded server, for a date that parses
GetRecordings ==
  \E date \in DatesAsked :
    \E recordings \in SortedBy(RecordingsFound(listed.segments, date,
                                               listed.timezone, listed.channel),
                               ByStartTimestamp) :
      /\ listed' = [listed EXCEPT !.date = date,
                                  !.recordings = recordings,
                                  !.recordingsDone = TRUE]
      /\ UNCHANGED besidesListed

ExtraIdle == scanned = NoScan /\ sought = NoSought /\ vsr = NoStream
               /\ ss = NoSession
               /\ listed = NoListing

ProcessInit == StatusInit /\ LoadIdle /\ FramesIdle /\ ServiceIdle /\ ExtraIdle

(* ---------------- the observer of speed commands ---------------- *)
\* the run is in its main loop: reader and audio handle are open
Streaming(r) == runs[r].audioOpen /\ runs[r].pc # "ret"

\* the rates a speed command may carry, as far as the commands drawn have them
Rates == Speeds \cap {1, 2, 4}

NoRate == [run |-> 0, speed |-> 0]

ObserverInit == rate = NoRate /\ since = 0

\* case "speed", seen by the observer: a rate sent to a streaming run is
\* remembered, and the count of its frames starts again
SpeedObserved ==
  /\ LogSpeed
  /\ IF cmd.speed \in Rates /\ \E r \in Runs : Streaming(r)
       THEN /\ rate' = [run |-> CHOOSE r \in Runs : Streaming(r),
                        speed |-> cmd.speed]
            /\ since' = 0
       ELSE UNCHANGED observerVars

\* a write of the goroutine, seen by the observer: the video frames of the
\* main loop the run has written since the speed command are counted
WriteObserved(r) ==
  /\ WriteMessage(r)
  /\ rate' = rate
  /\ since' = IF /\ rate.run = r
                 /\ runs[r].send = "nal"
                 /\ IsVideoFrame(runs[r].nals[runs[r].ni].NalType)
                 /\ since < 2
                THEN since + 1
                ELSE since

\* one step of the goroutine, observed
streamObserved(r) ==
  \/ Resolve(r)
  \/ CtxCheck(r)
  \/ Lock(r)
  \/ WriteObserved(r)
  \/ Create(r)
  \/ LoopTop(r)
  \/ ReadNextNals(r)
  \/ NalCtx(r)
  \/ Audio(r)
  \/ Sleep(r)
  \/ Return(r)

(* ---------------- the specifications ---------------- *)
\* one session on a storage that has segment 0 cached
Init ==
  /\ SessionInit
  /\ ProcessInit
  /\ ObserverInit
  /\ StorageInit({0})

Next ==
  \/ HandleWebSocket
  \/ \E r \in Runs : streamVideoWithAudio(r)

Spec == Init /\ [][Next]_vars

\* the goroutines and the handler are scheduled fairly and socket writes
\* complete; the client is free to send nothing more
FairSpec ==
  /\ Spec
  /\ WF_vars(\/ Speed \/ JsonLock \/ JsonWrite \/ StopLock \/ StopWait
             \/ startStream
             \/ \E r \in Runs : streamVideoWithAudio(r))

\* the session with the observer of speed commands
SpeedNext ==
  \/ ReadMessage
  \/ SpeedObserved
  \/ JsonLock
  \/ JsonWrite
  \/ StopLock
  \/ StopWait
  \/ startStream
  \/ \E r \in Runs : streamObserved(r)

SpeedSpec == Init /\ [][SpeedNext]_vars

\* lookups on a storage with any set of segments cached
FindInit ==
  /\ SessionInit
  /\ ProcessInit
  /\ loaded
  /\ ObserverInit
  /\ \E cached \in SUBSET FileIndexes : StorageInit(cached)

FindNext ==
  \/ FindSegmentByTime_Call
  \/ SeekSegment
  \/ SeekEntry

FindSpec == FindInit /\ [][FindNext]_vars

\* cache builds on a storage that starts with nothing cached
CacheInit ==
  /\ SessionInit
  /\ ProcessInit
  /\ ObserverInit
  /\ StorageInit({})

CacheNext ==
  \/ BuildCacheWithWorkers
  \/ WorkerReceive
  \/ WorkerBuild
  \/ CloseResults
  \/ Collect
  \/ CollectDone
  \/ BuildCacheReturn

CacheSpec == CacheInit /\ [][CacheNext]_vars

\* a build with the two holds of s.mu of the collector as two steps, and
\* status requests at any moment
StatusNext ==
  \/ BuildCacheWithWorkers
  \/ WorkerReceive
  \/ WorkerBuild
  \/ CloseResults
  \/ CollectStore
  \/ CollectPublish
  \/ CollectDone
  \/ BuildCacheReturn
  \/ GetCacheStatus

StatusSpec == CacheInit /\ [][StatusNext]_vars

\* a volume with any of the index files, the server loaded from it, and a
\* session on it
LoadInit ==
  /\ SessionInit
  /\ ObserverInit
  /\ StorageInit({})
  /\ StatusInit
  /\ FramesIdle
  /\ ServiceIdle
  /\ ExtraIdle
  /\ index \in IndexFiles
  /\ tps = NoServer
  /\ answer = NoAnswer

LoadNext ==
  \/ Load
  \/ BuildVPSCache
  \/ PlayOrSeek

LoadSpec == LoadInit /\ [][LoadNext]_vars

\* a container with any index region, no cache file yet
FrameInit ==
  /\ SessionInit
  /\ loaded
  /\ ObserverInit
  /\ StorageInit({})
  /\ StatusInit
  /\ LoadIdle
  /\ ServiceIdle
  /\ ExtraIdle
  /\ rec \in Recs
  /\ sidx = NoFile
  /\ vpos = NoFile
  /\ handed = NotHanded
  /\ built = NotBuilt
  /\ trip = NoTrip

FrameNext ==
  \/ ParseDirect
  \/ ParseTRecFrameIndexWithCache
  \/ Corrupt
  \/ buildSegmentCache

FrameSpec == FrameInit /\ [][FrameNext]_vars

\* vectors written to the cache files of a container and read back
TripNext ==
  \/ SaveLoadMmapCache
  \/ SaveLoadVPSCache

\* the round trips do not read the index region of the container
TripInit ==
  /\ FrameInit
  /\ Len(rec.disk) <= 1

TripSpec == TripInit /\ [][TripNext]_vars

\* main loads the server when the path exists, and goes on when the load
\* fails
ConfigInit ==
  /\ SessionInit
  /\ ObserverInit
  /\ StorageInit({})
  /\ StatusInit
  /\ LoadIdle
  /\ FramesIdle
  /\ dvr \in {NewDVRServer(1), [NewDVRServer(1) EXCEPT !.loaded = TRUE]}
  /\ dvrCache = <<>>
  /\ pathHistory = <<>>
  /\ volumes = [q \in Paths |-> PlainVolume]
  /\ config = NoConfig
  /\ asked = [seen |-> 1, repeats |-> 0, alters |-> 0, zoned |-> 0]
  /\ MmapIdle
  /\ InterpIdle
  /\ ExtraIdle

ConfigNext ==
  \/ SetConfig
  \/ Alter

ConfigSpec == ConfigInit /\ [][ConfigNext]_vars

ZoneNext ==
  \/ SetConfigZoned
  \/ Alter

ZoneSpec == ConfigInit /\ [][ZoneNext]_vars

MmapNext ==
  \/ \E g \in Getters : GetOrLoad(g)
  \/ \E g \in Getters : GetOrLoadLocked(g)
  \/ Close

MmapSpec == Init /\ [][MmapNext]_vars

InterpInit ==
  /\ SessionInit
  /\ ObserverInit
  /\ StorageInit({})
  /\ StatusInit
  /\ LoadIdle
  /\ FramesIdle
  /\ ConfigIdle
  /\ MmapIdle
  /\ ExtraIdle
  /\ \E iFrames \in IFrameLists : interp = [NoInterp EXCEPT !.iFrames = iFrames]

InterpNext == Interpolate

InterpSpec == InterpInit /\ [][InterpNext]_vars

\* every part but the given one in the state it has in Init
IdleBut(part) ==
  /\ SessionInit
  /\ ObserverInit
  /\ StorageInit({})
  /\ StatusInit
  /\ LoadIdle
  /\ FramesIdle
  /\ ServiceIdle
  /\ part \in {"scanned"} \/ scanned = NoScan
  /\ part \in {"sought"} \/ sought = NoSought
  /\ part \in {"vsr"} \/ vsr = NoStream
  /\ part \in {"ss"} \/ ss = NoSession
  /\ part \in {"listed"} \/ listed = NoListing

ScanInit ==
  /\ IdleBut("scanned")
  /\ \E file \in ScanFiles : scanned = [NoScan EXCEPT !.file = file]

ScanNext == ScanFile

ScanSpec == ScanInit /\ [][ScanNext]_vars

SoughtInit ==
  /\ IdleBut("sought")
  /\ \E audio \in AudioLists : sought = [NoSought EXCEPT !.audio = audio]

SoughtNext == FindTargetOffset

SoughtSpec == SoughtInit /\ [][SoughtNext]_vars

StreamInit ==
  /\ IdleBut("vsr")
  /\ \E file \in StreamFiles : vsr = [NoStream EXCEPT !.file = file]

StreamNext == ReadBatch

StreamSpec == StreamInit /\ [][StreamNext]_vars

ChanInit == IdleBut("ss") /\ ss = NoSession

ChanNext ==
  \/ ChanRead
  \/ ChanStop
  \/ ChanGo
  \/ \E i \in 1..MaxMessages :
       /\ i <= Len(ss.g)
       /\ \/ streamVideoEnter(i)
          \/ streamVideoSend(i)
          \/ streamVideoReturn(i)

ChanSpec == ChanInit /\ [][ChanNext]_vars

ListInit ==
  /\ IdleBut("listed")
  /\ \E segments \in CachedLists, tz \in Locations, channel \in {NoChannel, 1, 2} :
       listed = [NoListing EXCEPT !.segments = segments,
                                  !.timezone = tz,
                                  !.channel = channel]

ListNext ==
  \/ GetRecordingDates
  \/ GetRecordings

ListSpec == ListInit /\ [][ListNext]_vars

(* ---------------- what the claims speak of ---------------- *)
IsFrame(m) == m.kind \in {"video", "audio"}

\* the messages of run r on the wire, in order
RunMsgs(r) == SelectSeq(wire, LAMBDA m : m.run = r)

NoRunAlive == \A r \in Runs : ~Alive(r)

\* the goroutines that are inside ws.WriteMessage
Writers ==
  { r \in Runs : runs[r].pc = "write" } \cup
  (IF rpc = "json_write" THEN {Reader} ELSE {})

\* the reader loop has finished handling the pause it received last
PauseHandled == paused /\ rpc \notin {"stop_lock", "stop_wait"}

PrologueTypes == <<2, 3, 4, 1>>

(* ---------------- the claims ---------------- *)

\* C1: once a message of a later run is on the wire, no video or audio frame
\* of an earlier run of the session is written after it.
C1_NoOldFrameAfterNewRun ==
  \A i \in 1..Len(wire) : \A j \in 1..Len(wire) :
    (i < j /\ IsFrame(wire[j])) => wire[i].run <= wire[j].run

\* a seek or play preempted run 1 after it had written frames, and run 2 has
\* written to the socket
C1_Witness ==
  /\ runs[1].pc = "done" /\ runs[1].why = "preempt" /\ runs[1].wrote
  /\ \E i \in 1..Len(wire) : wire[i].run = 2

\* C2: in a run that emitted stream_start, the messages that follow it are the
\* VPS, SPS, PPS and IDR frames (frame types 2, 3, 4, 1) in that order, each
\* with timestamp actualStartTime * 1000, before any other frame of the run.
C2_PrologueOrder ==
  \A r \in Runs :
    LET ms == RunMsgs(r)
    IN (Len(ms) >= 1 /\ ms[1].kind = "stream_start") =>
         /\ \A k \in 2..Len(ms) :
              k <= 5 => /\ ms[k].kind = "video"
                        /\ ms[k].ft = PrologueTypes[k - 1]
                        /\ ms[k].ts = ms[1].ts * 1000
         /\ (Alive(r) /\ runs[r].pc \in {"create", "loop", "read", "nalctx",
                                          "audio", "sleep"}) => Len(ms) >= 5

\* a run has written its prologue and then a P-frame, and its actual start
\* time is not the requested timestamp
C2_Witness ==
  \E r \in Runs :
    LET ms == RunMsgs(r)
    IN /\ Len(ms) >= 6
       /\ ms[1].kind = "stream_start"
       /\ ms[6].kind = "video" /\ ms[6].ft = 0
       /\ Alive(r) /\ ms[1].ts # runs[r].startTimestamp

\* C3: a new stream id is installed only after the previous run was
\* cancelled and its goroutine has exited; at most one goroutine of the
\* session is alive; the installed stream ids are strictly increasing.
C3_OneRunAtATime ==
  [][ /\ Cardinality({ r \in Runs : Alive(r)' }) <= 1
      /\ streamID' # streamID =>
           /\ streamID' > streamID
           /\ NoRunAlive
           /\ cancel = 0
           /\ rpc = "start" ]_vars

\* run 2 is streaming under stream id 2 after run 1 was preempted
C3_Witness ==
  /\ streamID = 2
  /\ runs[1].pc = "done" /\ runs[1].why = "preempt"
  /\ runs[2].pc = "sleep"

\* C4 (as claimed): no frame is written to the socket by a run whose
\* cancellation had been signalled when the write was made.
C4_LateFrameDropped ==
  \A i \in 1..Len(wire) : IsFrame(wire[i]) => ~wire[i].late

\* C5: at most one goroutine is inside a socket write, and it holds s.mu.
C5_OneWriter ==
  /\ Cardinality(Writers) <= 1
  /\ \A p \in Writers : mu = p

\* a run is writing while the reader loop waits for s.mu to answer a
\* malformed message
C5_Witness ==
  /\ rpc = "json_lock"
  /\ \E r \in Runs : runs[r].pc = "write" /\ mu = r

\* C6: once a pause has been handled no goroutine is alive and nothing is
\* written until play or seek; a pause received while idle changes nothing.
C6_PauseIdle ==
  [][ /\ PauseHandled' => (NoRunAlive' /\ wg' = 0)
      /\ PauseHandled => wire' = wire
      /\ (cmd.action = "pause" /\ rpc \in {"stop_lock", "stop_wait"}
            /\ NoRunAlive) =>
           /\ UNCHANGED <<streamID, streamCounter, wg, wire, mu>>
           /\ \A r \in Runs : runs'[r].pc = runs[r].pc ]_vars

\* a pause stopped run 1 while it was streaming, and has been handled
C6_Witness ==
  /\ PauseHandled
  /\ streamCounter = 1
  /\ runs[1].pc = "done" /\ runs[1].why = "pause" /\ runs[1].wrote

\* C7: when the connection handler has returned, every goroutine of the
\* session has exited and the file handles it opened are closed.
C7_DisconnectClean ==
  rpc = "done" =>
    \A r \in Runs : ~Alive(r) /\ ~runs[r].readerOpen /\ ~runs[r].audioOpen

\* the handler returned after a disconnect that cancelled a streaming run
C7_Witness ==
  /\ rpc = "done"
  /\ \E r \in Runs : runs[r].why = "close" /\ runs[r].wrote

\* C8 (as claimed): a run that has returned wrote stream_end, once and as its
\* last message, exactly when its reader reached the end of the file; a run
\* that returned for any other reason wrote none.
C8_StreamEndIffEOF ==
  \A r \in Runs :
    LET ms == RunMsgs(r)
        ends == { k \in 1..Len(ms) : ms[k].kind = "stream_end" }
    IN runs[r].pc = "ret" =>
         IF runs[r].why = "eof"
           THEN ends = {Len(ms)}
           ELSE ends = {}

\* C9: under fair scheduling every command the reader loop has received is
\* handled to the end: the loop is back at ReadMessage or has returned.
C9_Responsive == (rpc # "read") ~> (rpc \in {"read", "done"})

\* stop() is waiting for a run that is inside a socket write
C9_Witness ==
  /\ rpc = "stop_wait"
  /\ \E r \in Runs : runs[r].pc = "write" /\ runs[r].ctxDone

\* C10 (as claimed): a run writes at most one NAL after its cancellation has
\* been signalled.
C10_AtMostOneLateNal ==
  \A r \in Runs :
    Cardinality({ i \in 1..Len(wire) :
                    wire[i].run = r /\ wire[i].kind = "video" /\ wire[i].late })
      <= 1

\* C11 (as claimed): once a streaming run has written two frames after a
\* speed command with a rate was handled, its inter-frame interval is the one
\* of that rate, 1000 / (25 * rate) ms, and it is still the same run.
C11_SpeedApplied ==
  (rate.run # 0 /\ since >= 2 /\ Streaming(rate.run)) =>
    /\ runs[rate.run].frameIntervalMs = FrameIntervalMs(rate.speed)
    /\ runs[rate.run].streamID = rate.run

\* C12 (as claimed): when a video frame of the main loop is written, every
\* audio frame of the run (those from its start position on) whose file
\* offset is at most the frame's offset is already on the socket.
C12_AudioBeforeVideo ==
  \A r \in Runs :
    LET ms == RunMsgs(r)
    IN \A j \in 1..Len(ms) :
         (j > 5 /\ ms[j].kind = "video" /\ ms[j].ft \in {0, 1} /\ Alive(r)) =>
           \A a \in 1..Len(AudioFrames) :
             ( /\ AudioFrames[a].FileOffset >= runs[r].streamStartPos
               /\ AudioFrames[a].FileOffset <= ms[j].off ) =>
               \E i \in 1..(j - 1) :
                 ms[i].kind = "audio" /\ ms[i].off = AudioFrames[a].FileOffset

\* the request of run r cannot be resolved: no cached segment of its channel
\* covers the instant, or no VPS/SPS/PPS/IDR follows the resolved offset
Unresolvable(r) ==
  \/ FindSegmentByTime(runs[r].startTimestamp, runs[r].channel) = {}
  \/ ReadVideoHeader(TargetOffset(AudioFrames, runs[r].startTimestamp)) = 0

\* C13: a run whose request cannot be resolved writes one JSON error and
\* nothing else (no stream_start, no frame) and opens no file; it does not
\* close the connection, which only a failed ReadMessage does; and once no
\* goroutine is alive the wait group is at zero, so that the next play or
\* seek starts its run.
C13_SeekErrorOnly ==
  [][ /\ \A r \in Runs :
           (Alive(r)' /\ loaded' /\ Unresolvable(r)') =>
             LET ms == RunMsgs(r)'
             IN /\ Len(ms) <= 1
                /\ \A k \in 1..Len(ms) : ms[k].kind = "error"
                /\ runs'[r].pc = "ret" =>
                     (Len(ms) = 1 /\ runs'[r].why = "error")
                /\ ~runs'[r].readerOpen /\ ~runs'[r].audioOpen
      /\ NoRunAlive' => wg' = 0
      /\ (rpc' = "done" /\ rpc # "done") => cmd.action = "close" ]_vars

\* after a failed seek of run 1 the session took a second play, whose run
\* streams: it has written its prologue and a frame
C13_Witness ==
  /\ runs[1].pc = "done" /\ runs[1].why = "error" /\ ~runs[1].wrote
  /\ runs[2].pc = "sleep" /\ runs[2].wrote /\ ~runs[2].ctxDone
  /\ rpc = "read"

\* the reader loop is answering a malformed message
Answering(at) == at \in {"json_lock", "json_write"}

\* C14: every malformed message is answered with one error, and from its
\* receipt to the end of its handling nothing else of the session changes:
\* the loop goes back to ReadMessage, the cancel function, the stream id and
\* the counter stay, no goroutine is cancelled or started, and the socket
\* log only grows by what the streaming goroutine writes.
C14_BadJsonOnlyAnswered ==
  [][ /\ nreply' = nbad' - (IF Answering(rpc') THEN 1 ELSE 0)
      /\ (Answering(rpc) \/ (rpc = "read" /\ Answering(rpc'))) =>
           /\ rpc' \in {"json_lock", "json_write", "read"}
           /\ UNCHANGED <<cancel, streamID, streamCounter, paused>>
           /\ \A r \in Runs :
                /\ runs'[r].ctxDone = runs[r].ctxDone
                /\ runs[r].pc = "none" => runs'[r].pc = "none"
           /\ Len(wire') >= Len(wire)
           /\ SubSeq(wire', 1, Len(wire)) = wire ]_vars

\* the error is being written to the socket while a run is streaming
C14_Witness ==
  /\ rpc = "json_write"
  /\ \E r \in Runs : runs[r].pc = "sleep" /\ runs[r].wrote

\* C15 (as claimed): a run that ended on a read error of the container has
\* an error as its last message and has written no stream_end.
C15_ReadErrorIsError ==
  \A r \in Runs :
    LET ms == RunMsgs(r)
    IN (runs[r].pc = "ret" /\ runs[r].why = "ioerr") =>
         /\ Len(ms) >= 1
         /\ ms[Len(ms)].kind = "error"
         /\ \A k \in 1..Len(ms) : ms[k].kind # "stream_end"

\* the cached segments that contain the instant, on the channel or on any
CachedOnChannel(timestamp, channel) ==
  { cachedSegments[i].Segment : i \in
      { j \in DOMAIN cachedSegments :
          Contains(cachedSegments[j].Segment, timestamp, channel) } }

CachedOnAnyChannel(timestamp) ==
  UNION { CachedOnChannel(timestamp, channel) : channel \in {1, 2} }

\* C16 (as claimed): a seek resolution returns a segment of the channel that
\* contains the instant if there is one, else a segment of any channel that
\* contains it, and fails only if no segment contains it.
C16_SeekFallsBack ==
  \A k \in 1..Len(lookups) :
    LET l == lookups[k]
        same == CachedOnChannel(l.timestamp, l.channel)
        any == CachedOnAnyChannel(l.timestamp)
    IN l.fn \in {"seek", "findEntryForTime"} =>
         /\ same # {} => l.seg \in same
         /\ (same = {} /\ any # {}) => l.seg \in any
         /\ any = {} <=> l.seg = NoSegment

\* the positions in the table of the segments a lookup searches that match
TableHits(l) ==
  { i \in 1..Len(Segments) :
      /\ l.cachedOnly => Segments[i].FileIndex \in DOMAIN cachedSegments
      /\ Contains(Segments[i], l.timestamp, l.channel) }

\* C17 (as claimed): FindSegmentByTime returns none when no searched segment
\* matches, else the first match in table order; two calls with the same
\* arguments on the same storage return the same segment.
C17_FirstInTableOrder ==
  /\ \A k \in 1..Len(lookups) :
       LET l == lookups[k]
           hits == TableHits(l)
       IN l.fn = "FindSegmentByTime" =>
            IF hits = {} THEN l.seg = NoSegment
            ELSE l.seg = Segments[CHOOSE i \in hits : \A j \in hits : i <= j]
  /\ \A k1 \in 1..Len(lookups), k2 \in 1..Len(lookups) :
       ( /\ lookups[k1].fn = "FindSegmentByTime"
         /\ lookups[k2].fn = "FindSegmentByTime"
         /\ lookups[k1].timestamp = lookups[k2].timestamp
         /\ lookups[k1].channel = lookups[k2].channel
         /\ lookups[k1].cachedOnly = lookups[k2].cachedOnly ) =>
         lookups[k1].seg = lookups[k2].seg

\* the work items that have been received from workChan and built
Built == { i \in FileIndexes : builds[i] > 0 }

InQueue == { workChan[k] : k \in 1..Len(workChan) }

C19_ProgressInOrder ==
  bc.pc \in {"collect", "ret"} =>
    /\ Len(progress) = bc.processed
    /\ \A k \in 1..Len(progress) :
         /\ progress[k].current = k
         /\ progress[k].total = bc.total
         /\ progress[k].fileIndex \in bc.requested
         /\ progress[k].built
         /\ progress[k].fileIndex \in RecFiles => progress[k].inserted
         /\ \A k2 \in 1..Len(progress) :
              progress[k2].fileIndex = progress[k].fileIndex => k2 = k
    /\ bc.pc = "ret" =>
         /\ Len(progress) = bc.total
         /\ { progress[k].fileIndex : k \in 1..Len(progress) } = bc.requested

\* a call over the 5 segments has returned; the results came out of order
\* and the one segment without a container was reported too
C19_Witness ==
  /\ bc.pc = "ret"
  /\ Len(progress) = 5
  /\ progress[1].fileIndex # 0
  /\ \E k \in 1..Len(progress) : ~progress[k].inserted

\* C20 (as claimed): during and after a call, a segment that was cached when
\* the call began is not built again and its Cached Segment Info is the one
\* it was.
C20_Idempotent ==
  bc.pc \in {"collect", "ret"} =>
    \A i \in DOMAIN bc.before :
      /\ builds[i] = 0
      /\ i \notin pool.building
      /\ i \in DOMAIN cachedSegments
      /\ cachedSegments[i] = bc.before[i]

\* C21 (as claimed): a status handed out is the status of one point of the
\* build: its total and current are the requested and the processed
\* segments of that point, its progress is current*100/total, cached does
\* not exceed current nor current total, and it says building exactly from
\* the start of the build until every requested segment is processed, and
\* then 100.
C21_StatusAtomic ==
  status.pc \in {"collect", "publish", "ret"} /\ status.total > 0 =>
    /\ status.Total = status.total
    /\ status.Current = status.processed
    /\ status.Progress = (status.Current * 100) \div status.Total
    /\ status.Cached <= status.Current
    /\ status.Current <= status.Total
    /\ (status.Status = "building") <=>
         (status.pc # "ret" /\ status.processed < status.total)
    /\ status.Status # "building" => status.Progress = 100

ValidIndex(f) == f.exists /\ ~f.short /\ f.magic = TPSIndexMagic

\* C22: a load of a volume whose master index is missing, too short or has
\* a wrong magic fails and leaves the storage not loaded with an empty
\* table; a load of a valid index succeeds, with an empty table when no slot
\* is valid; on a server that is not loaded or has no segment every play or
\* seek is answered with an error and the session stays open.
C22_LoadFailsOrEmpty ==
  /\ tps.made /\ ~ValidIndex(index) =>
       /\ tps.err # ""
       /\ ~tps.loaded /\ ~tps.dvrLoaded
       /\ tps.segments = <<>>
  /\ tps.made /\ ValidIndex(index) =>
       /\ tps.err = ""
       /\ tps.loaded /\ tps.dvrLoaded
       /\ (\A i \in 1..Len(index.slots) : ~KeepSlot(index.slots[i])) =>
            tps.segments = <<>>
  /\ answer.asked /\ (~tps.loaded \/ tps.segments = <<>>) =>
       answer.kind = "error" /\ ~answer.closed

\* a valid index with slots none of which is valid has been loaded, and a
\* play on it was answered
C22_Witness ==
  /\ tps.loaded
  /\ tps.segments = <<>>
  /\ Len(index.slots) > 3
  /\ answer.asked

\* C28: every segment of a parsed table has start < end, start not before
\* 2020-01-01 and a channel other than 0 and 0xFE; its file index is the
\* number of its slot on the disk, discarded slots counted; no slot beyond
\* entryCount plus the slack of 20 is read.
C28_ParsedTable ==
  tps.made /\ tps.err = "" =>
    /\ \A i \in 1..Len(tps.segments) :
         LET seg == tps.segments[i]
         IN /\ seg.StartTime < seg.EndTime
            /\ seg.StartTime >= 1577836800
            /\ seg.Channel \notin {0, 254}
            /\ seg.FileIndex + 1 \in 1..Len(index.slots)
            /\ seg.Channel = index.slots[seg.FileIndex + 1].channel
            /\ seg.StartTime = index.slots[seg.FileIndex + 1].startTime
            /\ seg.EndTime = index.slots[seg.FileIndex + 1].endTime
            /\ seg.FileIndex < index.entryCount + 20
            /\ \A j \in 1..Len(tps.segments) :
                 i < j => seg.FileIndex < tps.segments[j].FileIndex
    /\ tps.read <= index.entryCount + 20
    /\ \A k \in 1..tps.read :
         KeepSlot(index.slots[k]) =>
           \E i \in 1..Len(tps.segments) : tps.segments[i].FileIndex = k - 1

\* a table parsed from a file that holds more slots than are read, with
\* discarded slots before kept ones
C28_Witness ==
  /\ tps.made /\ tps.err = ""
  /\ Len(index.slots) > tps.read
  /\ Len(tps.segments) > 2
  /\ Len(tps.segments) < tps.read
  /\ tps.segments[1].FileIndex > 0

NoMagic(f) == \A i \in 1..Len(f.disk) : f.disk[i].magic # TRecFrameIndexMagic

\* C23 (as claimed): for a container without the frame-index magic the
\* parse hands out an empty list and no error, and the segment built from it
\* is kept as a cached segment of the storage, with no I-frame positions.
C23_EmptyIndexRetained ==
  built.done /\ rec.exists /\ NoMagic(rec) =>
    /\ handed.err = ""
    /\ handed.records = <<>>
    /\ built.info
    /\ built.VPSPositions = <<>>

C25_RoundTrip ==
  trip.kind # "" => trip.err = "" /\ trip.read = trip.wrote

\* C29: the frame-index records handed out for a container, parsed or read
\* from its cache, all have a channel of {2, 3, 258} and a unix time after
\* 2020-01-01, are in non-decreasing order of TimestampUs, and none of them
\* lies behind the first record of the region whose magic is wrong.
C29_HandedRecords ==
  handed.by # "" /\ handed.err = "" =>
    /\ \A i \in 1..Len(handed.records) :
         LET r == handed.records[i]
         IN /\ r.Channel \in {2, 3, 258}
            /\ r.UnixTs > 1577836800
            /\ r.FrameSeq \in 1..Len(rec.disk)
            /\ rec.disk[r.FrameSeq].TimestampUs = r.TimestampUs
            /\ \A k \in 1..r.FrameSeq :
                 (\E j \in 1..k : rec.disk[j].magic = TRecFrameIndexMagic) =>
                   rec.disk[k].magic = TRecFrameIndexMagic
    /\ \A i, j \in 1..Len(handed.records) :
         i < j => handed.records[i].TimestampUs <= handed.records[j].TimestampUs

\* a record read from the cache of a container whose region goes on, behind
\* a record with a wrong magic, with a record that would be kept
C29_Witness ==
  /\ handed.by = "cache"
  /\ Len(handed.records) = 1
  /\ \E i \in 1..Len(rec.disk) :
       /\ rec.disk[i].magic # TRecFrameIndexMagic
       /\ i > handed.records[1].FrameSeq
       /\ \E j \in (i + 1)..Len(rec.disk) :
            rec.disk[j].magic = TRecFrameIndexMagic /\ KeepRecord(rec.disk[j])

\* the active server is the one of the last path a request loaded
ActiveIsLast ==
  config.last # NoPath => dvr.loaded /\ dvr.dvrPath = config.last

\* the loaded server a request replaced is in the map under its path
PreviousRemembered ==
  (config.last # NoPath /\ config.before.loaded
     /\ config.before.dvrPath # config.last)
    => /\ config.before.dvrPath \in DOMAIN dvrCache
       /\ dvrCache[config.before.dvrPath].dvr = config.before

\* C26: after any sequence of storage path changes the active server is
\* the one for the last successfully loaded path, the server it replaced
\* is remembered in the path -> server map, and the map never holds more
\* than the fixed limit of entries
C26_BoundedPathMap ==
  /\ ActiveIsLast
  /\ PreviousRemembered
  /\ Cardinality(DOMAIN dvrCache) <= maxPathHistory

\* C27: however the calls of GetOrLoad interleave, each container path
\* has at most one mapping that is still mapped, that one is the one stored
\* in the manager, and a caller that holds a mapping still mapped holds
\* the stored one
C27_OneMmapPerPath ==
  /\ \A m \in Live : m.path \in DOMAIN caches /\ caches[m.path] = m.id
  /\ \A g \in Getters :
       (\E m \in Live : m.id = getters[g].got)
         => caches[getters[g].path] = getters[g].got

\* two callers missed the same path under the read lock, both went through
\* the write lock, and both hold the one mapping
C27_Witness ==
  /\ getters[1].locked /\ getters[2].locked
  /\ getters[1].path = getters[2].path
  /\ getters[1].got = getters[2].got
  /\ \E m \in Live : m.id = getters[1].got

\* the offsets of the positions are strictly increasing
StrictOffsets(iFrames) ==
  \A i \in 1..(Len(iFrames) - 1) : iFrames[i].Offset < iFrames[i + 1].Offset

\* the places k of the list with o_k <= o <= o_(k+1)
Around(iFrames, o) ==
  {k \in 1..(Len(iFrames) - 1) :
     iFrames[k].Offset <= o /\ o <= iFrames[k + 1].Offset}

\* C30: for positions with strictly increasing offsets and a target offset
\* between those of two neighbours, the returned time lies between the
\* times of the two neighbours, whichever of the two is the earlier
C30_BetweenNeighbours ==
  (interp.called /\ StrictOffsets(interp.iFrames))
    => \A k \in Around(interp.iFrames, interp.targetOffset) :
         LET a == interp.iFrames[k].Time
             b == interp.iFrames[k + 1].Time
         IN \/ a <= interp.time /\ interp.time <= b
            \/ b <= interp.time /\ interp.time <= a

\* a target strictly between two neighbours got a time strictly between
\* theirs
C30_Witness ==
  /\ interp.called
  /\ StrictOffsets(interp.iFrames)
  /\ \E k \in Around(interp.iFrames, interp.targetOffset) :
       /\ interp.iFrames[k].Offset < interp.targetOffset
       /\ interp.targetOffset < interp.iFrames[k + 1].Offset
       /\ interp.iFrames[k].Time < interp.time
       /\ interp.time < interp.iFrames[k + 1].Time

\* C30 as stated: the returned time lies in [t_k, t_(k+1)]
C30_InStatedInterval ==
  (interp.called /\ StrictOffsets(interp.iFrames))
    => \A k \in Around(interp.iFrames, interp.targetOffset) :
         /\ interp.iFrames[k].Time <= interp.time
         /\ interp.time <= interp.iFrames[k + 1].Time

\* the offsets below the limit of the data region at which the pattern
\* begins in the file
Occurrences(file) ==
  {at \in 0..(Len(file) - 1) : at < scanSize /\ PatternAt(file, at)}

\* C31: for every content of a container the scanner returns exactly the
\* offsets below the limit of the data region at which the pattern begins
\* in the file, each of them once
C31_ExactOccurrences ==
  scanned.done =>
    /\ {scanned.positions[i] : i \in 1..Len(scanned.positions)} = Occurrences(scanned.file)
    /\ \A i, j \in 1..Len(scanned.positions) :
         scanned.positions[i] = scanned.positions[j] => i = j

\* the places of the audio records at or after the time sought
AtOrAfter(audio, T) == {i \in 1..Len(audio) : audio[i].UnixTs >= T}

\* C32: when some audio record of the segment has unix_timestamp >= T, the
\* target offset is the file offset of the first such record in ascending
\* file-offset order, whatever that offset is
C32_FirstAudioAtOrAfter ==
  (sought.done /\ AtOrAfter(sought.audio, sought.startTimestamp) # {})
    => LET hits == AtOrAfter(sought.audio, sought.startTimestamp)
           first == CHOOSE i \in hits : \A j \in hits : i <= j
       IN sought.targetOffset = sought.audio[first].FileOffset

\* the end of the NAL whose start code begins at the offset: where the
\* next start code of the file begins, or the end of the file
NalEnd(file, at) ==
  LET after == {q \in (at + StartLen(file, at))..(Len(file) - 1) :
                  StartLen(file, q) # 0}
  IN IF after = {} THEN Len(file)
     ELSE CHOOSE q \in after : \A t \in after : q <= t

CompleteNals(file) ==
  {at \in 0..(Len(file) - 1) :
     /\ StartLen(file, at) # 0
     /\ ~(at > 0 /\ StartLen(file, at - 1) = 4)
     /\ NalEnd(file, at) < Len(file)}

\* C34: an empty batch is returned only when the file is exhausted, and
\* every complete NAL between the start offset and the end of the file was
\* emitted before the first empty batch
C34_EndOnlyWhenExhausted ==
  vsr.ended =>
    /\ vsr.r.streamPos = Len(vsr.file)
    /\ \A at \in CompleteNals(vsr.file) :
         \E i \in 1..Len(vsr.out) : vsr.out[i].FileOffset = at

\* the times the interpolation between prev and next gives: prev is the
\* last position at or before the target, or (0, start) when there is
\* none, next the position after prev, or (L, end) when there is none
BetweenPrevAndNext(iFrames, targetOffset, seg) ==
  LET before == {i \in 1..Len(iFrames) : iFrames[i].Offset <= targetOffset}
      k == IF before = {} THEN 0
           ELSE CHOOSE i \in before : \A j \in before : j <= i
      prev == IF k = 0 THEN [Offset |-> 0, Time |-> seg.StartTime]
              ELSE iFrames[k]
      next == IF k = Len(iFrames)
              THEN [Offset |-> TRecIndexRegionStart, Time |-> seg.EndTime]
              ELSE iFrames[k + 1]
  IN {prev.Time + d :
        d \in TruncatedProduct(targetOffset - prev.Offset,
                               next.Offset - prev.Offset,
                               next.Time - prev.Time)}

\* C35: for every list of at least one position with increasing offsets
\* and every target offset, the time returned is the interpolation between
\* prev and next, the start of the segment at offset 0 and its end at the
\* end of the data region standing in where a neighbour is missing
C35_InterpolatesEverywhere ==
  (interp.called /\ Len(interp.iFrames) >= 1 /\ StrictOffsets(interp.iFrames))
    => interp.time \in BetweenPrevAndNext(interp.iFrames, interp.targetOffset,
                                          TheSegment)

\* the goroutines of the session that go on sending: started and not
\* returned, with a stop channel that is not closed or not yet taken
GoesOn == {i \in 1..Len(ss.g) :
             \/ ss.g[i].pc = "spawned"
             \/ ss.g[i].pc = "loop" /\ ss.g[i].stopChan \notin ss.closed}

\* C36: every stop() reaches the goroutines started before it, so once a
\* pause has been handled no goroutine of the session goes on sending, and
\* at no time do two goroutines that were not stopped send frames
C36_StopReachesEveryStream ==
  /\ (ss.paused /\ ss.at = "read") => GoesOn = {}
  /\ Cardinality({i \in GoesOn : ss.g[i].pc = "loop"}) <= 1

\* C37: the storage has just been loaded for a new path and its build is
\* started asynchronously; a status taken by DVRServer.GetCacheStatus, as
\* GET /cache/status and the answer of POST /config take it, says ready
\* only when a build has been started and has run to its end
C37_ReadyOnlyWhenBuilt ==
  [][(status' # status /\ status'.Status = "ready")
       => (bc.calls >= 1 /\ bc.pc \in {"idle", "ret"})]_vars

\* C38: the timezone of the active server, which GET /config reports and
\* the date computations use, is the one of the last request with a
\* timezone that was answered with 200, whatever paths were loaded in that
\* request or since; and a request answered with 400, for its timezone or
\* for its path, leaves the active server and its timezone as they were
C38_TimezoneOfTheServer ==
  /\ [](config.posted # "" => dvr.timezone = config.posted)
  /\ [][(config' # config /\ config'.code = 400) => dvr' = dvr]_vars

\* C39: for the same segments, timezone and channel, a date is among the
\* recording dates exactly when the recordings of that date are not empty,
\* and every recording listed for a date begins and ends on that local
\* date, its start before its end
C39_DatesAgreeWithRecordings ==
  (listed.datesDone /\ listed.recordingsDone)
    => /\ listed.date \in listed.dates <=> listed.recordings # <<>>
       /\ \A i \in 1..Len(listed.recordings) :
            LET info == listed.recordings[i]
            IN /\ info.StartTimestamp < info.EndTimestamp
               /\ LocalDate(info.StartTimestamp, listed.timezone) = listed.date
               /\ LocalDate(info.EndTimestamp - 1, listed.timezone) = listed.date

====
